---- MODULE Spec2Model ----
(***************************************************************************)
(* Model of the OCR ensemble pipeline of pdf_text_extractor.py             *)
(* (class PDFTextExtractor): confidence estimation, candidate selection,   *)
(* image-variant generation, near-duplicate word merging, and the          *)
(* document / folder drivers process_pdf and process_pdf_folder.           *)
(*                                                                         *)
(* A text is a sequence of characters; a character is a one-element        *)
(* string, except the stand-ins "e_acute" (a non-ASCII letter), "kana" and *)
(* "kanji" (a kana sign, a CJK ideograph).  Floating-point scores are      *)
(* modelled as exact fractions in lowest terms.                            *)
(***************************************************************************)
EXTENDS Integers, Sequences, FiniteSets, TLC

VARIABLES
    conf_pc,        \* _estimate_ocr_confidence: "call" before, "return" after
    conf_text,      \* _estimate_ocr_confidence: the argument text
    conf_out,       \* _estimate_ocr_confidence: the returned score
    dd_pc,          \* _deduplicate_words_with_frequency: "call", "loop", "done"
    dd_pass,        \* 1: the first application, 2: re-applied to its own output
    dd_words,       \* the argument token list
    dd_queue,       \* word_counts.most_common() not yet visited
    cleaned_words,  \* the set cleaned_words
    dd_first,       \* the set returned by the first application
    ocr_pc,         \* extract_text_from_image: "call", "loop", "select", "done"
    enhancement_level,  \* its argument enhancement_level
    failing,        \* the preprocessing recipes that throw on this image
    processed_images,   \* the list processed_images (the variants' tags)
    ocr_i,          \* index i into processed_images (from 1)
    ocr_j,          \* index j into ocr_configs (from 1)
    attempts,       \* the <<i, j>> pairs handed to the OCR engine so far
    all_results,    \* the list all_results
    best_result,    \* the local best_result (NoResult before it is set)
    ocr_return,     \* the returned text
    f_pc,           \* process_pdf_folder: "call", "loop", "stats", "returned", "raised"
    folder_exists,  \* pdf_folder.exists()
    pdf_files,      \* len(pdf_files)
    has_api_key,    \* openai.api_key is set
    f_level,        \* the enhancement_level handed to process_pdf_folder
    f_idx,          \* the index of the PDF being processed (from 1)
    f_results,      \* the list results
    total_words,    \* the local total_words
    total_confidence,   \* the local total_confidence
    f_exception,    \* the exception that left process_pdf_folder, or "None"
    p_pc,           \* process_pdf: "idle", "convert", "page", "whole", "region",
                    \* "finish", "returned"
    result,         \* the dict result
    images,         \* len(images)
    page_i,         \* the index of the page being processed (from 1)
    text_regions,   \* the regions of the page not yet processed
    all_extracted_words,    \* the list all_extracted_words
    confidence_scores,      \* the list confidence_scores
    failures,       \* the kinds of failure met while processing this PDF
    attempts_total, \* OCR attempts made so far, over all PDFs of the folder
    cleanup_calls,  \* calls of client.chat.completions.create for this PDF
    selection_scores,   \* the confidence each kept candidate was selected with
    last_attempt,   \* the OCR text and the cleanup outcome of the last attempt
    en_pc,          \* is_english_text: "call", "return", or "idle"
    en_text,        \* its argument text
    en_lang,        \* what langdetect's detect(text) does on it
    en_out,         \* its return value
    sim_pc,         \* _are_similar_words: "call", "return", or "idle"
    sim_a,          \* its argument word1
    sim_b,          \* its argument word2
    sim_out,        \* the value of _are_similar_words(word1, word2)
    sim_rev,        \* the value of _are_similar_words(word2, word1)
    sf_pc,          \* _strict_english_filter: "call", "loop", "return", "idle"
    sf_text,        \* its argument text
    sf_lines,       \* the lines of text.split('\n') not yet looked at
    english_only_lines,  \* the list english_only_lines
    sf_out,         \* its return value
    we_pc,          \* _extract_words_from_text: "call", "loop", "return",
                    \* "raised", or "idle"
    we_text,        \* its argument text
    we_lang,        \* what langdetect's detect does on the lines of the text
    we_tok,         \* whether word_tokenize works
    we_lines,       \* the lines of text.split('\n') not yet looked at
    we_words,       \* the list words
    inc_pc,         \* process_all_unprocessed: "call", "loop", "return", "idle"
    inc_kind,       \* what process_pdf makes of each PDF of the folder
    inc_run,        \* the number of the run (from 1)
    processed_files,    \* the file names recorded in the results file
    unprocessed_files,  \* the list unprocessed_files not yet handled
    processed_count,    \* the local processed_count
    ocr_runs        \* for each PDF, the runs that handed it to process_pdf

conf_vars == <<conf_pc, conf_text, conf_out>>

dd_vars == <<dd_pc, dd_pass, dd_words, dd_queue, cleaned_words, dd_first>>

ocr_vars == <<ocr_pc, enhancement_level, failing, processed_images, ocr_i, ocr_j,
              attempts, all_results, best_result, ocr_return>>

folder_vars == <<f_pc, folder_exists, pdf_files, has_api_key, f_level, f_idx, f_results,
                 total_words, total_confidence, f_exception>>

pdf_vars == <<p_pc, result, images, page_i, text_regions, all_extracted_words,
              confidence_scores, failures, attempts_total, cleanup_calls,
              selection_scores, last_attempt>>

en_vars == <<en_pc, en_text, en_lang, en_out>>

sim_vars == <<sim_pc, sim_a, sim_b, sim_out, sim_rev>>

sf_vars == <<sf_pc, sf_text, sf_lines, english_only_lines, sf_out>>

we_vars == <<we_pc, we_text, we_lang, we_tok, we_lines, we_words>>

inc_vars == <<inc_pc, inc_kind, inc_run, processed_files, unprocessed_files,
              processed_count, ocr_runs>>

vars == <<conf_vars, dd_vars, ocr_vars, folder_vars, pdf_vars, en_vars,
          sim_vars, sf_vars, we_vars, inc_vars>>

\* ------------------------------------------------------------------ bounds

\* Longest text enumerated exhaustively for the confidence estimator.
MaxTextLen == 3

\* Longest token list handed to the deduplicator.
MaxTokens == 4

\* Most OCR calls per image that return text that is not blank.
MaxCandidates == 2

\* Most PDF files in the folder.
MaxPdfs == 1

\* Most pages of one PDF.
MaxPages == 2

\* Most OCR attempts (pages or regions) over the whole folder.
MaxAttempts == 2

\* Most pieces an argument of is_english_text is put together from.
MaxPieces == 3

\* lines in a response of the cleanup call
MaxLines == 2

\* PDFs in the folder of the incremental processor
MaxFiles == 2

\* consecutive runs of the incremental processor
MaxRuns == 2

\* ------------------------------------------------------------- characters

Lower == {"a","b","c","d","e","f","g","h","i","j","k","l","m",
          "n","o","p","q","r","s","t","u","v","w","x","y","z"}

Upper == {"A","B","C","D","E","F","G","H","I","J","K","L","M",
          "N","O","P","Q","R","S","T","U","V","W","X","Y","Z"}

Digits == {"0","1","2","3","4","5","6","7","8","9"}

\* str.isascii() and str.isalpha() on one character
IsAsciiAlpha(c) == c \in Lower \cup Upper

IsAlpha(c) == IsAsciiAlpha(c) \/ c \in {"e_acute", "kana", "kanji"}

\* what str.strip() removes
IsWhitespace(c) == c \in {" ", "\n", "\t"}

\* the regex class \w: letters of any script, digits, underscore
IsWordChar(c) == IsAlpha(c) \/ c \in Digits \/ c = "_"

Min(a, b) == IF a <= b THEN a ELSE b

Max(a, b) == IF a >= b THEN a ELSE b

RECURSIVE Gcd(_, _)
Gcd(a, b) == IF b = 0 THEN a ELSE Gcd(b, a % b)

\* a non-negative fraction in lowest terms
Rat(n, d) == LET g == Gcd(n, d) IN [num |-> n \div g, den |-> d \div g]

RatZero == [num |-> 0, den |-> 1]

RatOne == [num |-> 1, den |-> 1]

RatAdd(a, b) == Rat(a.num * b.den + b.num * a.den, a.den * b.den)

RatMul(a, b) == Rat(a.num * b.num, a.den * b.den)

RatLess(a, b) == a.num * b.den < b.num * a.den

RatLeq(a, b) == a.num * b.den <= b.num * a.den

RatMin(a, b) == IF RatLeq(a, b) THEN a ELSE b

\* str.strip()
RECURSIVE LStrip(_)
LStrip(text) ==
    IF text # <<>> /\ IsWhitespace(Head(text)) THEN LStrip(Tail(text)) ELSE text

RECURSIVE RStrip(_)
RStrip(text) ==
    IF text # <<>> /\ IsWhitespace(text[Len(text)])
    THEN RStrip(SubSeq(text, 1, Len(text) - 1))
    ELSE text

Strip(text) == RStrip(LStrip(text))

\* re.findall(r'\b[a-zA-Z]{2,}\b', text) as the set of <<first, last>> spans:
\* a run of at least two ASCII letters with no word character on either side
WordSpans(text) ==
    LET n == Len(text) IN
    { sp \in (1..n) \X (1..n) :
        /\ sp[1] < sp[2]
        /\ \A k \in sp[1]..sp[2] : IsAsciiAlpha(text[k])
        /\ (sp[1] = 1 \/ ~IsWordChar(text[sp[1] - 1]))
        /\ (sp[2] = n \/ ~IsWordChar(text[sp[2] + 1])) }

\* ------------------------------------------- _estimate_ocr_confidence

\* the length past which the length term saturates (len(text) / 100)
LengthCap == 100

WeightedScore(text) ==
    LET english_chars == Cardinality({i \in DOMAIN text : IsAsciiAlpha(text[i])})
        total_chars == Cardinality({i \in DOMAIN text : text[i] \notin {" ", "\n"}})
        words == WordSpans(text)
        valid_words == Cardinality({sp \in words :
                          /\ sp[2] - sp[1] + 1 >= 2
                          /\ \A k \in sp[1]..sp[2] : IsAlpha(text[k])})
        specials == Cardinality({i \in DOMAIN text :
                          text[i] \in {".", ",", "!", "?", ";", ":"}})
        t1 == IF total_chars > 0
              THEN RatMul(Rat(english_chars, total_chars), Rat(4, 10))
              ELSE RatZero
        t2 == IF words # {}
              THEN RatMul(Rat(valid_words, Cardinality(words)), Rat(3, 10))
              ELSE RatZero
        t3 == RatMul(RatMin(Rat(Len(text), LengthCap), RatOne), Rat(2, 10))
        \* 0.01 <= specials / max(len, 1) <= 0.1
        t4 == IF /\ 100 * specials >= Max(Len(text), 1)
                 /\ 10 * specials <= Max(Len(text), 1)
              THEN Rat(1, 10)
              ELSE RatZero
    IN  RatMin(RatAdd(RatAdd(RatAdd(t1, t2), t3), t4), RatOne)

\* mutant: the early return for whitespace-only text is missing
EstimateOcrConfidence_NoGuard(text) == WeightedScore(text)

EstimateOcrConfidence(text) ==
    IF Strip(text) = <<>> THEN RatZero ELSE WeightedScore(text)

RECURSIVE Rep(_, _)
Rep(block, n) == IF n = 0 THEN <<>> ELSE block \o Rep(block, n - 1)

\* every sequence of at most n elements of the set chars
AllTexts(chars, n) == UNION {[1..k -> chars] : k \in 0..n}

\* ------------------------------------------------- _are_similar_words

\* mutant: the threshold is 0.5, reached or exceeded
AreSimilarWords_Loose(word1, word2) ==
    IF Max(Len(word1), Len(word2)) - Min(Len(word1), Len(word2)) > 2 THEN FALSE
    ELSE IF word1 = word2 THEN TRUE
    ELSE LET common_chars == Cardinality({i \in DOMAIN word1 :
                                i <= Len(word2) /\ word1[i] = word2[i]})
         IN  10 * common_chars >= 5 * Max(Len(word1), Len(word2))

AreSimilarWords(word1, word2) ==
    IF Max(Len(word1), Len(word2)) - Min(Len(word1), Len(word2)) > 2 THEN FALSE
    ELSE IF word1 = word2 THEN TRUE
    ELSE LET common_chars == Cardinality({i \in DOMAIN word1 :
                                i <= Len(word2) /\ word1[i] = word2[i]})
         \* common_chars / max(len) > 0.8
         IN  10 * common_chars > 8 * Max(Len(word1), Len(word2))

\* ------------------------------------ _deduplicate_words_with_frequency

\* Counter(words)[w]
WordCount(words, w) == Cardinality({i \in DOMAIN words : words[i] = w})

FirstIndex(words, w) == CHOOSE i \in DOMAIN words :
                            words[i] = w /\ \A j \in 1..(i - 1) : words[j] # w

Range(seq) == {seq[i] : i \in DOMAIN seq}

\* the words of S sorted by count (descending, or ascending), words of equal
\* count in the order of their first occurrence: sorted() is stable
RECURSIVE OrderByCount(_, _, _)
OrderByCount(S, words, descending) ==
    IF S = {} THEN <<>>
    ELSE LET Before(a, b) ==
                 \/ /\ descending
                    /\ WordCount(words, a) > WordCount(words, b)
                 \/ /\ ~descending
                    /\ WordCount(words, a) < WordCount(words, b)
                 \/ /\ WordCount(words, a) = WordCount(words, b)
                    /\ FirstIndex(words, a) < FirstIndex(words, b)
             x == CHOOSE a \in S : \A b \in S \ {a} : Before(a, b)
         IN  <<x>> \o OrderByCount(S \ {x}, words, descending)

\* mutant: ascending counts (the sort is not reversed)
MostCommon_Ascending(words) == OrderByCount(Range(words), words, FALSE)

\* Counter(words).most_common()
MostCommon(words) == OrderByCount(Range(words), words, TRUE)

\* the body of the outer loop for one word, when the inner loop over
\* list(cleaned_words) meets the similar word `hit` first (NoHit: none is similar)
NoHit == <<>>

\* a variant of the loop body that replaces the similar word whatever the counts
VisitWord_AlwaysReplace(cleaned, words, word, hit) ==
    IF hit = NoHit
    THEN cleaned \cup {word}
    ELSE (cleaned \ {hit}) \cup {word}

VisitWord(cleaned, words, word, hit) ==
    IF hit = NoHit
    THEN cleaned \cup {word}
    ELSE IF WordCount(words, word) > WordCount(words, hit)
         THEN (cleaned \ {hit}) \cup {word}
         ELSE cleaned

\* the words the inner loop may stop at: a set is iterated in no fixed order
SimilarHits(cleaned, word) ==
    LET sim == {e \in cleaned : AreSimilarWords(word, e)}
    IN  IF sim = {} THEN {NoHit} ELSE sim

W_nation == <<"n","a","t","i","o","n">>

W_naton == <<"n","a","t","o","n">>

W_notion == <<"n","o","t","i","o","n">>

W_motion == <<"m","o","t","i","o","n">>

W_nations == <<"n","a","t","i","o","n","s">>

W_cat == <<"c","a","t">>

DedupWords == {W_nation, W_naton, W_notion, W_motion, W_nations, W_cat}

\* every list of the elements of S, each once
ListOrders(S) ==
    {p \in [1..Cardinality(S) -> S] : \A i, j \in DOMAIN p : i # j => p[i] # p[j]}

DedupIdle ==
    /\ dd_pc = "idle"
    /\ dd_pass = 0
    /\ dd_words = <<>>
    /\ dd_queue = <<>>
    /\ cleaned_words = {}
    /\ dd_first = {}

DedupInit ==
    /\ dd_pc = "call"
    /\ dd_pass = 1
    /\ dd_words \in AllTexts(DedupWords, MaxTokens)
    /\ dd_queue = <<>>
    /\ cleaned_words = {}
    /\ dd_first = {}

\* word_counts = Counter(words); cleaned_words = set()
DedupStart ==
    /\ dd_pc = "call"
    /\ dd_pc' = "loop"
    /\ dd_queue' = MostCommon(dd_words)
    /\ cleaned_words' = {}
    /\ UNCHANGED <<dd_pass, dd_words, dd_first, conf_vars, ocr_vars, folder_vars, pdf_vars, en_vars,
                 sim_vars, sf_vars, we_vars, inc_vars>>

\* one iteration of `for word, count in word_counts.most_common()`
DedupVisit ==
    /\ dd_pc = "loop"
    /\ dd_queue # <<>>
    /\ \E hit \in SimilarHits(cleaned_words, Head(dd_queue)) :
          cleaned_words' = VisitWord(cleaned_words, dd_words, Head(dd_queue), hit)
    /\ dd_queue' = Tail(dd_queue)
    /\ UNCHANGED <<dd_pc, dd_pass, dd_words, dd_first, conf_vars, ocr_vars, folder_vars, pdf_vars, en_vars,
                 sim_vars, sf_vars, we_vars, inc_vars>>

\* return list(cleaned_words)
DedupReturn ==
    /\ dd_pc = "loop"
    /\ dd_queue = <<>>
    /\ dd_pc' = "done"
    /\ UNCHANGED <<dd_pass, dd_words, dd_queue, cleaned_words, dd_first, conf_vars, ocr_vars, folder_vars, pdf_vars, en_vars,
                 sim_vars, sf_vars, we_vars, inc_vars>>

\* the returned list, in any order, is handed to the function again
DedupAgain ==
    /\ dd_pc = "done"
    /\ dd_pass = 1
    /\ dd_pass' = 2
    /\ dd_first' = cleaned_words
    /\ dd_words' \in ListOrders(cleaned_words)
    /\ dd_pc' = "call"
    /\ dd_queue' = <<>>
    /\ cleaned_words' = {}
    /\ UNCHANGED <<conf_vars, ocr_vars, folder_vars, pdf_vars, en_vars,
                 sim_vars, sf_vars, we_vars, inc_vars>>

DedupNext == DedupStart \/ DedupVisit \/ DedupReturn \/ DedupAgain

\* ------------------------------------------------------ preprocess_image

Levels == {"light", "standard", "aggressive"}

Recipes == {"standard", "contrast", "denoise", "upscale",
            "morphological", "adaptive-threshold"}

\* the recipes preprocess_image calls, in call order
RecipesCalled(level) ==
    <<"standard">>
    \o (IF level \in {"standard", "aggressive"}
        THEN <<"contrast", "denoise", "upscale">> ELSE <<>>)
    \o (IF level = "aggressive"
        THEN <<"morphological", "adaptive-threshold">> ELSE <<>>)

\* mutant: the second block is entered for level "standard" only
PreprocessImage_StandardOnly(level, fails) ==
    LET called == <<"standard">>
                  \o (IF level = "standard"
                      THEN <<"contrast", "denoise", "upscale">> ELSE <<>>)
                  \o (IF level = "aggressive"
                      THEN <<"morphological", "adaptive-threshold">> ELSE <<>>)
    IN  IF Range(called) \cap fails # {}
        THEN [raised |-> TRUE, images |-> <<>>]
        ELSE [raised |-> FALSE, images |-> called]

\* preprocess_image: no recipe call is guarded, so a recipe that throws makes
\* the whole call throw; otherwise one variant per recipe called
PreprocessImage(level, fails) ==
    IF Range(RecipesCalled(level)) \cap fails # {}
    THEN [raised |-> TRUE, images |-> <<>>]
    ELSE [raised |-> FALSE, images |-> RecipesCalled(level)]

\* ----------------------------------------------- extract_text_from_image

\* len(ocr_configs)
NumOcrConfigs == 4

T_ab == <<"a","b">>

T_cd == <<"c","d">>

T_ab_nl == <<"a","b","\n">>

\* what pytesseract.image_to_string may return
OcrTexts == {<<>>, <<" ">>, T_ab, T_cd, T_ab_nl}

OcrEngineOutcomes ==
    {[raised |-> TRUE, text |-> <<>>]}
    \cup {[raised |-> FALSE, text |-> t] : t \in OcrTexts}

NoResult == [text |-> <<>>, preprocessing |-> 0, config |-> 0, confidence |-> RatZero]

\* mutant: a later candidate of equal confidence replaces the best so far
RECURSIVE BestResult_LastWins(_)
BestResult_LastWins(results) ==
    IF Len(results) = 1 THEN results[1]
    ELSE LET best == BestResult_LastWins(SubSeq(results, 1, Len(results) - 1))
             last == results[Len(results)]
         IN  IF RatLeq(best.confidence, last.confidence) THEN last ELSE best

\* max(all_results, key=lambda x: x['confidence']): the running maximum is
\* replaced only by a strictly greater key
RECURSIVE BestResult(_)
BestResult(results) ==
    IF Len(results) = 1 THEN results[1]
    ELSE LET best == BestResult(SubSeq(results, 1, Len(results) - 1))
             last == results[Len(results)]
         IN  IF RatLess(best.confidence, last.confidence) THEN last ELSE best

\* mutant: an engine exception leaves the loop over the configurations
AfterAttempt_BreakOnRaise(i, j, outcome) ==
    IF outcome.raised \/ j = NumOcrConfigs
    THEN [i |-> i + 1, j |-> 1]
    ELSE [i |-> i, j |-> j + 1]

\* the loop indices after the attempt at (i, j): both the except branch
\* (continue) and the normal end of the body go on to the next configuration
AfterAttempt(i, j, outcome) ==
    IF j = NumOcrConfigs
    THEN [i |-> i + 1, j |-> 1]
    ELSE [i |-> i, j |-> j + 1]

OcrIdle ==
    /\ ocr_pc = "idle"
    /\ enhancement_level = "standard"
    /\ failing = {}
    /\ processed_images = <<>>
    /\ ocr_i = 0
    /\ ocr_j = 0
    /\ attempts = <<>>
    /\ all_results = <<>>
    /\ best_result = NoResult
    /\ ocr_return = <<>>

OcrInit ==
    /\ ocr_pc = "call"
    /\ enhancement_level \in Levels
    /\ failing \in {{}} \cup {{r} : r \in Recipes}
    /\ processed_images = <<>>
    /\ ocr_i = 0
    /\ ocr_j = 0
    /\ attempts = <<>>
    /\ all_results = <<>>
    /\ best_result = NoResult
    /\ ocr_return = <<>>

\* processed_images = self.preprocess_image(image, enhancement_level); an
\* exception goes to the outer handler, which returns ""
OcrPreprocess ==
    /\ ocr_pc = "call"
    /\ LET pre == PreprocessImage(enhancement_level, failing) IN
         IF pre.raised
         THEN /\ ocr_pc' = "done"
              /\ ocr_return' = <<>>
              /\ UNCHANGED <<processed_images, ocr_i, ocr_j>>
         ELSE /\ ocr_pc' = "loop"
              /\ processed_images' = pre.images
              /\ ocr_i' = 1
              /\ ocr_j' = 1
              /\ UNCHANGED ocr_return
    /\ UNCHANGED <<enhancement_level, failing, attempts, all_results, best_result,
                   conf_vars, dd_vars, folder_vars, pdf_vars, en_vars,
                 sim_vars, sf_vars, we_vars, inc_vars>>

\* one pass of the inner loop body: image_to_string on variant i under
\* configuration j
OcrAttempt ==
    /\ ocr_pc = "loop"
    /\ \E outcome \in OcrEngineOutcomes :
         /\ Strip(outcome.text) # <<>> => Len(all_results) < MaxCandidates
         /\ attempts' = Append(attempts, <<ocr_i, ocr_j>>)
         /\ all_results' =
              IF ~outcome.raised /\ Strip(outcome.text) # <<>>
              THEN Append(all_results,
                          [text |-> Strip(outcome.text),
                           preprocessing |-> ocr_i,
                           config |-> ocr_j,
                           confidence |-> EstimateOcrConfidence(outcome.text)])
              ELSE all_results
         /\ LET nxt == AfterAttempt(ocr_i, ocr_j, outcome) IN
              /\ ocr_i' = nxt.i
              /\ ocr_j' = nxt.j
              /\ ocr_pc' = IF nxt.i > Len(processed_images) THEN "select" ELSE "loop"
    /\ UNCHANGED <<enhancement_level, failing, processed_images, best_result,
                   ocr_return, conf_vars, dd_vars, folder_vars, pdf_vars, en_vars,
                 sim_vars, sf_vars, we_vars, inc_vars>>

\* if not all_results: return ""; else return the best result's text
OcrSelect ==
    /\ ocr_pc = "select"
    /\ ocr_pc' = "done"
    /\ IF all_results = <<>>
       THEN /\ ocr_return' = <<>>
            /\ UNCHANGED best_result
       ELSE /\ best_result' = BestResult(all_results)
            /\ ocr_return' = BestResult(all_results).text
    /\ UNCHANGED <<enhancement_level, failing, processed_images, ocr_i, ocr_j,
                   attempts, all_results, conf_vars, dd_vars, folder_vars, pdf_vars, en_vars,
                 sim_vars, sf_vars, we_vars, inc_vars>>

OcrNext == OcrPreprocess \/ OcrAttempt \/ OcrSelect

\* --------------------------------------------------------- text helpers

UpperSeq == <<"A","B","C","D","E","F","G","H","I","J","K","L","M",
              "N","O","P","Q","R","S","T","U","V","W","X","Y","Z">>

LowerSeq == <<"a","b","c","d","e","f","g","h","i","j","k","l","m",
              "n","o","p","q","r","s","t","u","v","w","x","y","z">>

ToLower(c) ==
    IF c \in Upper THEN LowerSeq[CHOOSE i \in DOMAIN UpperSeq : UpperSeq[i] = c] ELSE c

\* str.lower()
LowerText(text) == [i \in DOMAIN text |-> ToLower(text[i])]

\* text.split('\n')
RECURSIVE SplitLines(_)
SplitLines(text) ==
    IF \A i \in DOMAIN text : text[i] # "\n"
    THEN <<text>>
    ELSE LET k == CHOOSE i \in DOMAIN text :
                     text[i] = "\n" /\ \A m \in 1..(i - 1) : text[m] # "\n"
         IN  <<SubSeq(text, 1, k - 1)>> \o SplitLines(SubSeq(text, k + 1, Len(text)))

\* sep.join(parts)
RECURSIVE Join(_, _)
Join(parts, sep) ==
    IF parts = <<>> THEN <<>>
    ELSE IF Len(parts) = 1 THEN parts[1]
    ELSE parts[1] \o sep \o Join(Tail(parts), sep)

\* str.startswith / str.endswith
StartsWith(text, prefix) ==
    Len(text) >= Len(prefix) /\ SubSeq(text, 1, Len(prefix)) = prefix

EndsWith(text, suffix) ==
    Len(text) >= Len(suffix)
    /\ SubSeq(text, Len(text) - Len(suffix) + 1, Len(text)) = suffix

\* the character class of hiragana, katakana and CJK ideographs (U+3040-U+9FAF)
IsJapanese(c) == c \in {"kana", "kanji"}

HasJapanese(text) == \E i \in DOMAIN text : IsJapanese(text[i])

\* re.search(r'\b(w1|w2|...)\b', text): one of the words, with no word
\* character on either side
SearchWords(wordset, text) ==
    \E i \in DOMAIN text : \E w \in wordset :
        /\ i + Len(w) - 1 <= Len(text)
        /\ SubSeq(text, i, i + Len(w) - 1) = w
        /\ (i = 1 \/ ~IsWordChar(text[i - 1]))
        /\ (i + Len(w) - 1 = Len(text) \/ ~IsWordChar(text[i + Len(w)]))

\* -------------------------------------------------------- is_english_text

FunctionWords1 ==
    { <<"t","h","e">>, <<"a","n","d">>, <<"o","r">>, <<"b","u","t">>,
      <<"i","n">>, <<"o","n">>, <<"a","t">>, <<"t","o">>,
      <<"f","o","r">>, <<"o","f">>, <<"w","i","t","h">>, <<"b","y">> }

FunctionWords2 ==
    { <<"i","s">>, <<"a","r","e">>, <<"w","a","s">>, <<"w","e","r","e">>,
      <<"b","e">>, <<"b","e","e","n">>, <<"b","e","i","n","g">>, <<"h","a","v","e">>,
      <<"h","a","s">>, <<"h","a","d">> }

FunctionWords3 ==
    { <<"c","a","n">>, <<"c","o","u","l","d">>, <<"s","h","o","u","l","d">>, <<"w","o","u","l","d">>,
      <<"w","i","l","l">>, <<"s","h","a","l","l">>, <<"m","a","y">>, <<"m","i","g","h","t">>,
      <<"m","u","s","t">> }

FunctionWords4 ==
    { <<"t","h","i","s">>, <<"t","h","a","t">>, <<"t","h","e","s","e">>, <<"t","h","o","s","e">>,
      <<"h","e","r","e">>, <<"t","h","e","r","e">>, <<"w","h","e","r","e">>, <<"w","h","e","n">>,
      <<"w","h","a","t">>, <<"w","h","o">>, <<"h","o","w">>, <<"w","h","y">> }

\* self.english_stopwords: a part of stopwords.words('english')
StopWords ==
    { <<"i">>, <<"m","e">>, <<"m","y">>, <<"w","e">>, <<"o","u","r">>,
      <<"y","o","u">>, <<"y","o","u","r">>, <<"h","e">>, <<"h","i","m">>, <<"h","i","s">>,
      <<"s","h","e">>, <<"h","e","r">>, <<"i","t">>, <<"i","t","s">>, <<"t","h","e","y">>,
      <<"t","h","e","m">>, <<"t","h","e","i","r">>, <<"w","h","a","t">>, <<"w","h","i","c","h">>, <<"w","h","o">>,
      <<"t","h","i","s">>, <<"t","h","a","t">>, <<"t","h","e","s","e">>, <<"t","h","o","s","e">>, <<"a","m">>,
      <<"i","s">>, <<"a","r","e">>, <<"w","a","s">>, <<"w","e","r","e">>, <<"b","e">>,
      <<"b","e","e","n">>, <<"b","e","i","n","g">>, <<"h","a","v","e">>, <<"h","a","s">>, <<"h","a","d">>,
      <<"d","o">>, <<"d","o","e","s">>, <<"d","i","d">>, <<"a">>, <<"a","n">>,
      <<"t","h","e">>, <<"a","n","d">>, <<"b","u","t">>, <<"i","f">>, <<"o","r">>,
      <<"b","e","c","a","u","s","e">>, <<"a","s">>, <<"u","n","t","i","l">>, <<"w","h","i","l","e">>, <<"o","f">>,
      <<"a","t">>, <<"b","y">>, <<"f","o","r">>, <<"w","i","t","h">>, <<"a","b","o","u","t">>,
      <<"i","n","t","o">>, <<"t","h","r","o","u","g","h">>, <<"t","o">>, <<"f","r","o","m">>, <<"u","p">>,
      <<"d","o","w","n">>, <<"i","n">>, <<"o","u","t">>, <<"o","n">>, <<"o","f","f">>,
      <<"o","v","e","r">>, <<"u","n","d","e","r">>, <<"t","h","e","n">>, <<"o","n","c","e">>, <<"h","e","r","e">>,
      <<"t","h","e","r","e">>, <<"w","h","e","n">>, <<"w","h","e","r","e">>, <<"w","h","y">>, <<"h","o","w">>,
      <<"a","l","l">>, <<"a","n","y">>, <<"b","o","t","h">>, <<"e","a","c","h">>, <<"m","o","r","e">>,
      <<"m","o","s","t">>, <<"o","t","h","e","r">>, <<"s","o","m","e">>, <<"s","u","c","h">>, <<"n","o">>,
      <<"n","o","r">>, <<"n","o","t">>, <<"o","n","l","y">>, <<"o","w","n">>, <<"s","a","m","e">>,
      <<"s","o">>, <<"t","h","a","n">>, <<"t","o","o">>, <<"v","e","r","y">>, <<"c","a","n">>,
      <<"w","i","l","l">>, <<"j","u","s","t">>, <<"n","o","w">> }

EnglishPatterns == <<FunctionWords1, FunctionWords2, FunctionWords3, FunctionWords4>>

\* what langdetect.detect may do: report English, report another language,
\* or throw
LangSignals == {"en", "other", "raise"}

\* a variant of is_english_text that asks the language identification
\* before the hard rejects
IsEnglishText_DetectFirst(text, lang) ==
    IF lang = "en" THEN TRUE
    ELSE IF Strip(text) = <<>> THEN FALSE
    ELSE IF HasJapanese(text) THEN FALSE
    ELSE LET english_chars == Cardinality({i \in DOMAIN text : IsAsciiAlpha(text[i])})
             total_alpha_chars == Cardinality({i \in DOMAIN text : IsAlpha(text[i])})
         IN  /\ total_alpha_chars # 0
             /\ 10 * english_chars >= 7 * total_alpha_chars
             /\ WordSpans(LowerText(text)) # {}
             /\ \/ 10 * english_chars >= 8 * total_alpha_chars
                \/ \E g \in DOMAIN EnglishPatterns :
                       SearchWords(EnglishPatterns[g], LowerText(text))

\* a variant of is_english_text whose final test joins the character ratio
\* and the function words with "and"
IsEnglishText_RatioAndPattern(text, lang) ==
    IF Strip(text) = <<>> THEN FALSE
    ELSE IF HasJapanese(text) THEN FALSE
    ELSE LET english_chars == Cardinality({i \in DOMAIN text : IsAsciiAlpha(text[i])})
             total_alpha_chars == Cardinality({i \in DOMAIN text : IsAlpha(text[i])})
         IN  /\ total_alpha_chars # 0
             /\ 10 * english_chars >= 7 * total_alpha_chars
             /\ WordSpans(LowerText(text)) # {}
             /\ \/ /\ 10 * english_chars >= 8 * total_alpha_chars
                   /\ \E g \in DOMAIN EnglishPatterns :
                          SearchWords(EnglishPatterns[g], LowerText(text))
                \/ lang = "en"

\* is_english_text, given the language-identification signal for the text
IsEnglishText(text, lang) ==
    IF Strip(text) = <<>> THEN FALSE
    ELSE IF HasJapanese(text) THEN FALSE
    ELSE IF \A i \in DOMAIN Strip(text) :
                \/ Strip(text)[i] \in Digits
                \/ IsWhitespace(Strip(text)[i])
                \/ Strip(text)[i] \in {"+", "-", "*", "/", "=", "(", ")", "[", "]"}
         THEN FALSE
    ELSE LET english_chars == Cardinality({i \in DOMAIN text : IsAsciiAlpha(text[i])})
             total_alpha_chars == Cardinality({i \in DOMAIN text : IsAlpha(text[i])})
         IN  IF total_alpha_chars = 0 THEN FALSE
             \* english_ratio < 0.7
             ELSE IF 10 * english_chars < 7 * total_alpha_chars THEN FALSE
             ELSE LET words == WordSpans(LowerText(text))
                      pattern_matches ==
                          Cardinality({g \in DOMAIN EnglishPatterns :
                              SearchWords(EnglishPatterns[g], LowerText(text))})
                      is_detected_english == (lang = "en")
                  IN  IF words = {} THEN FALSE
                      ELSE \/ /\ 10 * english_chars >= 8 * total_alpha_chars
                              /\ Cardinality(words) >= 1
                           \/ /\ 10 * english_chars >= 7 * total_alpha_chars
                              /\ pattern_matches >= 1
                           \/ is_detected_english

\* --------------------------------------------------- extract_english_words

\* nltk.word_tokenize, in outline: tokens are separated by whitespace; the
\* marks , ! ? ; : are tokens of their own, and so is a full stop that ends
\* the text or is followed by whitespace; every other character stays inside
\* its token.  (Apostrophes and quotes, which nltk treats specially, do not
\* occur in the texts used here.)
RECURSIVE TokenizeFrom(_, _, _)
TokenizeFrom(text, i, cur) ==
    LET flush == IF cur = <<>> THEN <<>> ELSE <<cur>> IN
    IF i > Len(text) THEN flush
    ELSE IF IsWhitespace(text[i]) THEN flush \o TokenizeFrom(text, i + 1, <<>>)
    ELSE IF \/ text[i] \in {",", "!", "?", ";", ":"}
            \/ /\ text[i] = "."
               /\ (i = Len(text) \/ IsWhitespace(text[i + 1]))
         THEN flush \o <<<<text[i]>>>> \o TokenizeFrom(text, i + 1, <<>>)
    ELSE TokenizeFrom(text, i + 1, Append(cur, text[i]))

WordTokenize(text) == TokenizeFrom(text, 1, <<>>)

\* a function result or the exception that replaced it
Returned(v) == [raised |-> FALSE, value |-> v]

Raised == [raised |-> TRUE, value |-> <<>>]

\* extract_english_words; tokenizer_ok: word_tokenize finds its data and
\* does not throw
ExtractEnglishWords_KeepsStopWords(text, lang, tokenizer_ok) ==
    IF ~IsEnglishText(text, lang) THEN Returned(<<>>)
    ELSE IF ~tokenizer_ok THEN Raised
    ELSE Returned(SelectSeq(WordTokenize(LowerText(text)),
             LAMBDA word : /\ word # <<>>
                           /\ \A k \in DOMAIN word : word[k] \in Lower
                           /\ Len(word) >= 2))

ExtractEnglishWords(text, lang, tokenizer_ok) ==
    IF ~IsEnglishText(text, lang) THEN Returned(<<>>)
    ELSE IF ~tokenizer_ok THEN Raised
    ELSE Returned(SelectSeq(WordTokenize(LowerText(text)),
             LAMBDA word : /\ word # <<>>
                           /\ \A k \in DOMAIN word : word[k] \in Lower
                           /\ Len(word) >= 2
                           /\ word \notin StopWords))

\* _extract_words_from_text: the words of every line that is English
RECURSIVE ExtractWordsFromLines(_, _, _)
ExtractWordsFromLines(lines, lang, tokenizer_ok) ==
    IF lines = <<>> THEN Returned(<<>>)
    ELSE LET line == Strip(Head(lines))
             here == IF line # <<>> /\ IsEnglishText(line, lang)
                     THEN ExtractEnglishWords(line, lang, tokenizer_ok)
                     ELSE Returned(<<>>)
         IN  IF here.raised THEN Raised
             ELSE LET rest == ExtractWordsFromLines(Tail(lines), lang, tokenizer_ok)
                  IN  IF rest.raised THEN Raised
                      ELSE Returned(here.value \o rest.value)

ExtractWordsFromText(text, lang, tokenizer_ok) ==
    ExtractWordsFromLines(SplitLines(text), lang, tokenizer_ok)

\* ------------------------------------------------- _reconstruct_paragraphs

ParagraphOpeners ==
    { <<"I","n"," ">>, <<"T","h","e"," ">>, <<"W","h","e","n"," ">>,
      <<"L","a","s","t"," ">>, <<"A","f","t","e","r"," ">>, <<"M","y"," ">> }

\* re.sub(r' +', ' ', text)
RECURSIVE CollapseSpaces(_)
CollapseSpaces(text) ==
    IF text = <<>> THEN <<>>
    ELSE IF Len(text) >= 2 /\ text[1] = " " /\ text[2] = " "
         THEN CollapseSpaces(Tail(text))
    ELSE <<Head(text)>> \o CollapseSpaces(Tail(text))

\* re.sub(r'\n{3,}', '\n\n', text)
RECURSIVE CollapseNewlines(_)
CollapseNewlines(text) ==
    IF text = <<>> THEN <<>>
    ELSE IF Len(text) >= 3 /\ text[1] = "\n" /\ text[2] = "\n" /\ text[3] = "\n"
         THEN CollapseNewlines(Tail(text))
    ELSE <<Head(text)>> \o CollapseNewlines(Tail(text))

\* the loop of _reconstruct_paragraphs over the lines left, with the
\* paragraphs closed so far and the paragraph being built
RECURSIVE ParagraphsFrom(_, _, _)
ParagraphsFrom(lines, paragraphs, current_paragraph) ==
    IF lines = <<>>
    THEN IF current_paragraph # <<>>
         THEN Append(paragraphs, current_paragraph)
         ELSE paragraphs
    ELSE LET line == Head(lines)
             starts_new ==
                 \/ /\ current_paragraph # <<>>
                    /\ line[1] \in Upper
                    /\ EndsWith(current_paragraph, <<".">>)
                 \/ \E opener \in ParagraphOpeners : StartsWith(line, opener)
         IN  IF starts_new
             THEN ParagraphsFrom(Tail(lines),
                      IF current_paragraph # <<>>
                      THEN Append(paragraphs, current_paragraph)
                      ELSE paragraphs,
                      line)
             ELSE ParagraphsFrom(Tail(lines), paragraphs,
                      IF current_paragraph # <<>>
                      THEN current_paragraph \o <<" ">> \o line
                      ELSE line)

ReconstructParagraphs(lines) ==
    IF lines = <<>> THEN <<>>
    ELSE CollapseNewlines(CollapseSpaces(
             Join(ParagraphsFrom(lines, <<>>, <<>>), <<"\n", "\n">>)))

\* -------------------------------------------------- _strict_english_filter

\* a variant of the loop's test that counts letters of any alphabet
KeepsLine_AnyAlphabet(line) ==
    /\ line # <<>>
    /\ ~HasJapanese(line)
    /\ ~(/\ \A i \in DOMAIN line :
              \/ line[i] \in Digits \cup Upper
              \/ IsWhitespace(line[i])
              \/ line[i] \in {"(", ")", "[", "]", "."}
         /\ Len(line) < 10)
    /\ Cardinality({i \in DOMAIN line : IsAlpha(line[i])}) >= 3
    /\ ~(Len(line) > 5 /\ \A i \in DOMAIN line : ~IsWhitespace(line[i]))

\* whether the loop of _strict_english_filter keeps the (stripped) line
KeepsLine(line) ==
    /\ line # <<>>
    /\ ~HasJapanese(line)
    \* re.match(r'^[\d\s\(\)\[\]A-Z\.]+$', line) and len(line) < 10
    /\ ~(/\ \A i \in DOMAIN line :
              \/ line[i] \in Digits \cup Upper
              \/ IsWhitespace(line[i])
              \/ line[i] \in {"(", ")", "[", "]", "."}
         /\ Len(line) < 10)
    /\ Cardinality({i \in DOMAIN line : IsAsciiAlpha(line[i])}) >= 3
    /\ ~(Len(line) > 5 /\ \A i \in DOMAIN line : ~IsWhitespace(line[i]))

StripAll(lines) == [i \in DOMAIN lines |-> Strip(lines[i])]

StrictEnglishFilter(text) ==
    IF text = <<>> THEN <<>>
    ELSE Strip(ReconstructParagraphs(
             SelectSeq(StripAll(SplitLines(text)), KeepsLine)))

\* ----------------------------------------------- extract_pure_english_only

\* what the chat-completion call may do: throw, or answer with a text
T_cat == <<"T","h","e"," ","c","a","t"," ","s","a","t"," ","o","n"," ",
           "t","h","e"," ","m","a","t",".">>

T_nation2 == <<"T","h","e"," ","n","a","t","i","o","n"," ","r","o","s","e",".",
               "\n","A"," ","n","a","t","o","n"," ","f","e","l","l",".">>

T_mixed == <<"(","1",")"," ","A"," ","B","\n","kanji","kanji"," ","a","b","c","\n",
             "T","h","e"," ","c","a","t"," ","s","a","t",".">>

T_nations2 == <<"T","h","e"," ","n","a","t","i","o","n","s"," ","r","o","s","e",".",
                "\n","T","h","e"," ","n","a","t","i","o","n","s"," ","f","e","l","l",".">>

T_nation_mixed == <<"(","1",")"," ","A"," ","B","\n","kanji","kanji"," ","a","b","c","\n",
                    "T","h","e"," ","n","a","t","i","o","n"," ","r","o","s","e",".">>

CleanupTexts == {<<>>, T_cat, T_nation_mixed, T_nations2}

CleanupOutcomes == {Raised} \cup {Returned(t) : t \in CleanupTexts}

\* extract_pure_english_only; has_key: openai.api_key is set
ExtractPureEnglishOnly(ocr_text, has_key, response) ==
    IF Strip(ocr_text) = <<>> THEN <<>>
    ELSE IF ~has_key THEN <<>>
    ELSE IF response.raised THEN <<>>
    ELSE StrictEnglishFilter(Strip(response.value))

\* ---------------------------------------------------- detect_text_regions

\* the page image's size in pixels
PageSize == [width |-> 100, height |-> 100]

\* bounding boxes cv2.findContours may report on a page
ContourPool ==
    { [x |-> 10, y |-> 5, w |-> 40, h |-> 10],
      [x |-> 50, y |-> 5, w |-> 30, h |-> 10],
      [x |-> 5, y |-> 30, w |-> 40, h |-> 10],
      [x |-> 0, y |-> 0, w |-> 5, h |-> 5] }

\* a variant of the sort with the key (region[0], region[1])
RECURSIVE SortRegions_ByX(_)
SortRegions_ByX(S) ==
    IF S = {} THEN <<>>
    ELSE LET first == CHOOSE r \in S : \A q \in S \ {r} :
                          r.x < q.x \/ (r.x = q.x /\ r.y < q.y)
         IN  <<first>> \o SortRegions_ByX(S \ {first})

\* text_regions.sort(key=lambda region: (region[1], region[0]))
RECURSIVE SortRegions(_)
SortRegions(S) ==
    IF S = {} THEN <<>>
    ELSE LET first == CHOOSE r \in S : \A q \in S \ {r} :
                          r.y < q.y \/ (r.y = q.y /\ r.x < q.x)
         IN  <<first>> \o SortRegions(S \ {first})

\* detect_text_regions; outcome: the contours found, or the exception thrown
\* on the way (which makes it return [])
DetectTextRegions(outcome) ==
    IF outcome.raised THEN <<>>
    ELSE SortRegions({c \in outcome.value :
            /\ 10 <= c.w
            /\ 10 * c.w <= 8 * PageSize.width
            /\ 8 <= c.h
            /\ 2 * c.h <= PageSize.height
            \* 0.5 <= w / h <= 20
            /\ c.h <= 2 * c.w
            /\ c.w <= 20 * c.h})

DetectOutcomes == {Raised} \cup {Returned(S) : S \in SUBSET ContourPool}

\* ------------------------------ extract_text_from_image, as one function

T_cat_nl == T_cat \o <<"\n">>

T_kanji == <<"kanji", "kana", "kana", "kanji">>

\* what the OCR of one image (a page or a region) may meet: preprocessing
\* throws, or the first engine calls end as listed and all later ones return
\* blank text
OcrScenarios ==
    { [pre_raised |-> TRUE, outputs |-> <<>>],
      [pre_raised |-> FALSE, outputs |-> <<>>],
      [pre_raised |-> FALSE, outputs |-> <<[raised |-> TRUE, text |-> <<>>]>>],
      [pre_raised |-> FALSE, outputs |-> <<[raised |-> FALSE, text |-> T_cat]>>],
      [pre_raised |-> FALSE, outputs |-> <<[raised |-> FALSE, text |-> T_cat_nl]>>],
      [pre_raised |-> FALSE, outputs |-> <<[raised |-> FALSE, text |-> T_kanji]>>],
      [pre_raised |-> FALSE, outputs |-> <<[raised |-> FALSE, text |-> T_cd],
                                           [raised |-> TRUE, text |-> <<>>],
                                           [raised |-> FALSE, text |-> T_ab_nl]>>] }

\* the list all_results built from the engine's outputs
RECURSIVE ResultsFrom(_, _)
ResultsFrom(outputs, n) ==
    IF n > Len(outputs) THEN <<>>
    ELSE (IF ~outputs[n].raised /\ Strip(outputs[n].text) # <<>>
          THEN <<[text |-> Strip(outputs[n].text),
                  preprocessing |-> ((n - 1) \div NumOcrConfigs) + 1,
                  config |-> ((n - 1) % NumOcrConfigs) + 1,
                  confidence |-> EstimateOcrConfidence(outputs[n].text)]>>
          ELSE <<>>)
         \o ResultsFrom(outputs, n + 1)

ExtractTextFromImage(scenario) ==
    IF scenario.pre_raised THEN <<>>
    ELSE IF ResultsFrom(scenario.outputs, 1) = <<>> THEN <<>>
    ELSE BestResult(ResultsFrom(scenario.outputs, 1)).text

\* best_result['confidence'], the score the returned text was selected with
SelectionConfidence(scenario) ==
    IF scenario.pre_raised THEN RatZero
    ELSE IF ResultsFrom(scenario.outputs, 1) = <<>> THEN RatZero
    ELSE BestResult(ResultsFrom(scenario.outputs, 1)).confidence

\* -------------------------- _deduplicate_words_with_frequency, in one step

\* the sets the loop may end with, from the words still to visit
RECURSIVE DedupFrom(_, _, _)
DedupFrom(queue, cleaned, words) ==
    IF queue = <<>> THEN {cleaned}
    ELSE UNION { DedupFrom(Tail(queue), VisitWord(cleaned, words, Head(queue), hit), words) :
                   hit \in SimilarHits(cleaned, Head(queue)) }

DeduplicateWordsWithFrequency(words) == DedupFrom(MostCommon(words), {}, words)

\* sum(confidence_scores)
RECURSIVE RatSum(_)
RatSum(scores) ==
    IF scores = <<>> THEN RatZero ELSE RatAdd(Head(scores), RatSum(Tail(scores)))

\* ------------------------------------------------------------ process_pdf

NoError == "None"

NewResult(idx, lvl) ==
    [source_file |-> idx,
     full_path |-> idx,
     pages_processed |-> 0,
     pure_english_text |-> <<>>,
     extracted_words |-> {},
     processing_stats |-> [total_ocr_attempts |-> 0,
                           successful_extractions |-> 0,
                           average_confidence |-> RatZero,
                           enhancement_level |-> lvl],
     error |-> NoError]

NoAttempt == [ocr_text |-> <<>>, cleanup |-> "not called"]

PdfIdle ==
    /\ p_pc = "idle"
    /\ result = NewResult(0, "standard")
    /\ images = 0
    /\ page_i = 0
    /\ text_regions = <<>>
    /\ all_extracted_words = <<>>
    /\ confidence_scores = <<>>
    /\ failures = {}
    /\ attempts_total = 0
    /\ cleanup_calls = 0
    /\ selection_scores = <<>>
    /\ last_attempt = NoAttempt

\* result = self.process_pdf(str(pdf_file), enhancement_level): the dict
\* result is built before the try block
PdfCall ==
    /\ f_pc = "loop"
    /\ p_pc = "idle"
    /\ p_pc' = "convert"
    /\ result' = NewResult(f_idx, f_level)
    /\ images' = 0
    /\ page_i' = 0
    /\ text_regions' = <<>>
    /\ all_extracted_words' = <<>>
    /\ confidence_scores' = <<>>
    /\ failures' = {}
    /\ cleanup_calls' = 0
    /\ selection_scores' = <<>>
    /\ last_attempt' = NoAttempt
    /\ UNCHANGED <<attempts_total, folder_vars, conf_vars, dd_vars, ocr_vars, en_vars,
                 sim_vars, sf_vars, we_vars, inc_vars>>

\* images = convert_from_path(pdf_path, dpi=300), which throws on a file it
\* cannot read; the handler records the error in the result
PdfConvert ==
    /\ p_pc = "convert"
    /\ \/ /\ result' = [result EXCEPT !.error = "str(e)"]
          /\ failures' = failures \cup {"convert"}
          /\ p_pc' = "returned"
          /\ UNCHANGED <<images, page_i>>
       \/ \E n \in 0..MaxPages :
            /\ attempts_total + n <= MaxAttempts
            /\ images' = n
            /\ result' = [result EXCEPT !.pages_processed = n]
            /\ page_i' = 1
            /\ p_pc' = IF n = 0 THEN "finish" ELSE "page"
            /\ UNCHANGED failures
    /\ UNCHANGED <<text_regions, all_extracted_words, confidence_scores,
                   attempts_total, cleanup_calls, selection_scores, last_attempt,
                   folder_vars, conf_vars, dd_vars, ocr_vars, en_vars,
                 sim_vars, sf_vars, we_vars, inc_vars>>

\* a variant of the test that looks at the regions only
UseRegions_AnyLevel(regions, enh_level) == regions # <<>>

\* if text_regions and enhancement_level == "aggressive"
UseRegions(regions, enh_level) == regions # <<>> /\ enh_level = "aggressive"

\* text_regions = self.detect_text_regions(image), and the choice between
\* the two branches
PdfDetectRegions ==
    /\ p_pc = "page"
    /\ \E outcome \in DetectOutcomes :
         LET regions == DetectTextRegions(outcome) IN
         /\ regions # <<>> =>
               attempts_total + Len(regions) + (images - page_i) <= MaxAttempts
         /\ text_regions' = regions
         /\ failures' = IF outcome.raised
                        THEN failures \cup {"region detection"}
                        ELSE failures
         /\ p_pc' = IF UseRegions(regions, f_level) THEN "region" ELSE "whole"
    /\ UNCHANGED <<result, images, page_i, all_extracted_words, confidence_scores,
                   attempts_total, cleanup_calls, selection_scores, last_attempt,
                   folder_vars, conf_vars, dd_vars, ocr_vars, en_vars,
                 sim_vars, sf_vars, we_vars, inc_vars>>

\* a variant that deduplicates the words of each page or region on their own
ExtendWords_PerPage(all_words, words) ==
    all_words \o SelectSeq(MostCommon(words),
                     LAMBDA w : w \in (CHOOSE kept \in DeduplicateWordsWithFrequency(words) : TRUE))

\* all_extracted_words.extend(words)
ExtendWords(all_words, words) == all_words \o words

\* where process_pdf goes on after a page (p_pc = "whole") or a region
AfterStep(pc, regions, page, pages) ==
    IF pc = "region" /\ Len(regions) > 1
    THEN [pc |-> "region", page |-> page, regions |-> Tail(regions)]
    ELSE IF page < pages
    THEN [pc |-> "page", page |-> page + 1, regions |-> <<>>]
    ELSE [pc |-> "finish", page |-> page, regions |-> <<>>]

\* the kinds of failure met in one OCR attempt
StepFailures(scenario, ocr_text, has_key, response, words) ==
    (IF scenario.pre_raised THEN {"preprocess"} ELSE {})
    \cup (IF \E n \in DOMAIN scenario.outputs : scenario.outputs[n].raised
          THEN {"ocr engine"} ELSE {})
    \cup (IF Strip(ocr_text) # <<>> /\ has_key /\ response.raised
          THEN {"cleanup"} ELSE {})
    \cup (IF words.raised THEN {"tokenizer"} ELSE {})

\* a variant of AttemptCalls in which an exception of the cleanup call is
\* not absorbed by extract_pure_english_only
AttemptCalls_CleanupPropagates(scenario, response, lang, tokenizer_ok, has_key) ==
    LET ocr_text == ExtractTextFromImage(scenario)
        kept == Strip(ocr_text) # <<>>
        pure_english == ExtractPureEnglishOnly(ocr_text, has_key, response)
        words == IF kept /\ pure_english # <<>>
                 THEN ExtractWordsFromText(pure_english, lang, tokenizer_ok)
                 ELSE Returned(<<>>)
        called == Strip(ocr_text) # <<>> /\ has_key
    IN  [has_key |-> has_key,
         ocr_text |-> ocr_text,
         selection_confidence |-> SelectionConfidence(scenario),
         kept |-> kept,
         cleanup_calls |-> IF called THEN 1 ELSE 0,
         cleanup |-> IF ~called THEN "not called"
                     ELSE IF response.raised THEN "raised"
                     ELSE IF Strip(response.value) = <<>> THEN "empty"
                     ELSE "text",
         pure_english |-> pure_english,
         words |-> words,
         raised |-> words.raised \/ (called /\ response.raised),
         confidence |-> EstimateOcrConfidence(ocr_text),
         failures |-> StepFailures(scenario, ocr_text, has_key, response, words)]

\* a variant of AttemptCalls without the test "if ocr_text.strip()"
AttemptCalls_BlankKept(scenario, response, lang, tokenizer_ok, has_key) ==
    LET ocr_text == ExtractTextFromImage(scenario)
        kept == TRUE
        pure_english == ExtractPureEnglishOnly(ocr_text, has_key, response)
        words == IF kept /\ pure_english # <<>>
                 THEN ExtractWordsFromText(pure_english, lang, tokenizer_ok)
                 ELSE Returned(<<>>)
        called == Strip(ocr_text) # <<>> /\ has_key
    IN  [has_key |-> has_key,
         ocr_text |-> ocr_text,
         selection_confidence |-> SelectionConfidence(scenario),
         kept |-> kept,
         cleanup_calls |-> IF called THEN 1 ELSE 0,
         cleanup |-> IF ~called THEN "not called"
                     ELSE IF response.raised THEN "raised"
                     ELSE IF Strip(response.value) = <<>> THEN "empty"
                     ELSE "text",
         pure_english |-> pure_english,
         words |-> words,
         raised |-> words.raised,
         confidence |-> EstimateOcrConfidence(ocr_text),
         failures |-> StepFailures(scenario, ocr_text, has_key, response, words)]

\* the calls of one pass through the loop body: extract_text_from_image,
\* extract_pure_english_only (with its one call of the cleanup service),
\* _extract_words_from_text and _estimate_ocr_confidence; kept: the test
\* "if ocr_text.strip()"; raised: an exception leaves the loop body (only
\* _extract_words_from_text lets one through)
AttemptCalls(scenario, response, lang, tokenizer_ok, has_key) ==
    LET ocr_text == ExtractTextFromImage(scenario)
        kept == Strip(ocr_text) # <<>>
        pure_english == ExtractPureEnglishOnly(ocr_text, has_key, response)
        words == IF kept /\ pure_english # <<>>
                 THEN ExtractWordsFromText(pure_english, lang, tokenizer_ok)
                 ELSE Returned(<<>>)
        called == Strip(ocr_text) # <<>> /\ has_key
    IN  [has_key |-> has_key,
         ocr_text |-> ocr_text,
         selection_confidence |-> SelectionConfidence(scenario),
         kept |-> kept,
         cleanup_calls |-> IF called THEN 1 ELSE 0,
         cleanup |-> IF ~called THEN "not called"
                     ELSE IF response.raised THEN "raised"
                     ELSE IF Strip(response.value) = <<>> THEN "empty"
                     ELSE "text",
         pure_english |-> pure_english,
         words |-> words,
         raised |-> words.raised,
         confidence |-> EstimateOcrConfidence(ocr_text),
         failures |-> StepFailures(scenario, ocr_text, has_key, response, words)]

\* what these calls can produce, over the OCR scenarios, the cleanup
\* responses, the language signals and the tokenizer's state
AttemptCases ==
    { AttemptCalls(scenario, response, lang, tokenizer_ok, has_key) :
        scenario \in OcrScenarios, response \in CleanupOutcomes,
        lang \in LangSignals, tokenizer_ok \in BOOLEAN, has_key \in BOOLEAN }

\* the body of the loop over the regions, or the else branch for the whole
\* page: OCR, cleanup, word extraction, counters
PdfAttempt ==
    /\ p_pc \in {"whole", "region"}
    /\ \E calls \in AttemptCases :
         LET counted == [result EXCEPT
                           !.processing_stats.total_ocr_attempts = @ + 1]
             nxt == AfterStep(p_pc, text_regions, page_i, images)
         IN
         /\ calls.has_key = has_api_key
         /\ failures' = failures \cup calls.failures
         /\ attempts_total' = attempts_total + 1
         /\ cleanup_calls' = cleanup_calls + calls.cleanup_calls
         /\ last_attempt' = [ocr_text |-> calls.ocr_text, cleanup |-> calls.cleanup]
         /\ IF ~calls.kept
            THEN /\ result' = counted
                 /\ UNCHANGED <<all_extracted_words, confidence_scores,
                                selection_scores>>
                 /\ p_pc' = nxt.pc
                 /\ page_i' = nxt.page
                 /\ text_regions' = nxt.regions
            ELSE IF calls.raised
            THEN \* the exception leaves the loop for the handler
                 /\ result' = [counted EXCEPT
                                 !.pure_english_text =
                                     IF calls.pure_english # <<>>
                                     THEN Append(@, calls.pure_english) ELSE @,
                                 !.error = "str(e)"]
                 /\ UNCHANGED <<all_extracted_words, confidence_scores,
                                selection_scores, page_i, text_regions>>
                 /\ p_pc' = "returned"
            ELSE /\ result' = [counted EXCEPT
                                 !.pure_english_text =
                                     IF calls.pure_english # <<>>
                                     THEN Append(@, calls.pure_english) ELSE @,
                                 !.processing_stats.successful_extractions = @ + 1]
                 /\ all_extracted_words' = ExtendWords(all_extracted_words, calls.words.value)
                 /\ confidence_scores' = Append(confidence_scores, calls.confidence)
                 /\ selection_scores' =
                        Append(selection_scores, calls.selection_confidence)
                 /\ p_pc' = nxt.pc
                 /\ page_i' = nxt.page
                 /\ text_regions' = nxt.regions
    /\ UNCHANGED <<images, folder_vars, conf_vars, dd_vars, ocr_vars, en_vars,
                 sim_vars, sf_vars, we_vars, inc_vars>>

\* after the loop: deduplicate the words and average the confidences
PdfFinish ==
    /\ p_pc = "finish"
    /\ p_pc' = "returned"
    /\ \E deduplicated \in DeduplicateWordsWithFrequency(all_extracted_words) :
         result' = [result EXCEPT
            !.extracted_words = deduplicated,
            !.processing_stats.average_confidence =
                IF confidence_scores # <<>>
                THEN RatMul(RatSum(confidence_scores), Rat(1, Len(confidence_scores)))
                ELSE @]
    /\ UNCHANGED <<images, page_i, text_regions, all_extracted_words,
                   confidence_scores, failures, attempts_total, cleanup_calls,
                   selection_scores, last_attempt, folder_vars, conf_vars, dd_vars, ocr_vars, en_vars,
                 sim_vars, sf_vars, we_vars, inc_vars>>

\* ----------------------------------------------------- process_pdf_folder

FolderInit ==
    /\ f_pc = "call"
    /\ folder_exists \in BOOLEAN
    /\ pdf_files \in 0..MaxPdfs
    /\ has_api_key \in BOOLEAN
    /\ f_level \in Levels
    /\ f_idx = 0
    /\ f_results = <<>>
    /\ total_words = 0
    /\ total_confidence = RatZero
    /\ f_exception = "None"

FolderIdle ==
    /\ f_pc = "idle"
    /\ folder_exists = FALSE
    /\ pdf_files = 0
    /\ has_api_key = FALSE
    /\ f_level = "standard"
    /\ f_idx = 0
    /\ f_results = <<>>
    /\ total_words = 0
    /\ total_confidence = RatZero
    /\ f_exception = "None"

\* the checks before the loop: a missing folder raises, an empty one
\* returns []
FolderStart ==
    /\ f_pc = "call"
    /\ IF ~folder_exists
       THEN /\ f_pc' = "raised"
            /\ f_exception' = "FileNotFoundError"
            /\ UNCHANGED f_idx
       ELSE IF pdf_files = 0
       THEN /\ f_pc' = "returned"
            /\ UNCHANGED <<f_exception, f_idx>>
       ELSE /\ f_pc' = "loop"
            /\ f_idx' = 1
            /\ UNCHANGED f_exception
    /\ UNCHANGED <<folder_exists, pdf_files, has_api_key, f_level, f_results,
                   total_words, total_confidence, pdf_vars,
                   conf_vars, dd_vars, ocr_vars, en_vars,
                 sim_vars, sf_vars, we_vars, inc_vars>>

\* the rest of the loop body once process_pdf has returned
FolderCollect ==
    /\ f_pc = "loop"
    /\ p_pc = "returned"
    /\ f_results' = Append(f_results, result)
    /\ total_words' = total_words + Cardinality(result.extracted_words)
    /\ total_confidence' =
         IF result.processing_stats.average_confidence.num > 0
         THEN RatAdd(total_confidence, result.processing_stats.average_confidence)
         ELSE total_confidence
    /\ f_idx' = f_idx + 1
    /\ f_pc' = IF f_idx = pdf_files THEN "stats" ELSE "loop"
    /\ p_pc' = "idle"
    /\ UNCHANGED <<folder_exists, pdf_files, has_api_key, f_level, f_exception,
                   result, images, page_i, text_regions, all_extracted_words,
                   confidence_scores, failures, attempts_total, cleanup_calls,
                   selection_scores, last_attempt,
                   conf_vars, dd_vars, ocr_vars, en_vars,
                 sim_vars, sf_vars, we_vars, inc_vars>>

\* avg_confidence = total_confidence / len([r for r in f_results if ... > 0]),
\* then return f_results (output_file is None)
FolderStats ==
    /\ f_pc = "stats"
    /\ LET scored == {n \in DOMAIN f_results :
                         f_results[n].processing_stats.average_confidence.num > 0}
       IN  IF scored = {}
           THEN /\ f_pc' = "raised"
                /\ f_exception' = "ZeroDivisionError"
           ELSE /\ f_pc' = "returned"
                /\ UNCHANGED f_exception
    /\ UNCHANGED <<folder_exists, pdf_files, has_api_key, f_level, f_idx, f_results,
                   total_words, total_confidence, pdf_vars,
                   conf_vars, dd_vars, ocr_vars, en_vars,
                 sim_vars, sf_vars, we_vars, inc_vars>>

Next == FolderStart \/ PdfCall \/ PdfConvert \/ PdfDetectRegions \/ PdfAttempt
        \/ PdfFinish \/ FolderCollect \/ FolderStats

\* ------------------------------------------- is_english_text, on its own

EnglishIdle ==
    /\ en_pc = "idle"
    /\ en_text = <<>>
    /\ en_lang = "other"
    /\ en_out = FALSE

\* what the arguments are put together from
TextPieces ==
    { <<"T","h","e">>, <<"a","b","c">>, <<"x">>, <<" ">>, <<"1">>, <<"+">>,
      <<"kanji">>, <<"e_acute">> }

RECURSIVE PieceTexts(_)
PieceTexts(n) ==
    IF n = 0 THEN {<<>>}
    ELSE PieceTexts(n - 1)
         \cup {t \o piece : t \in PieceTexts(n - 1), piece \in TextPieces}

T_sentence == <<"S","h","e"," ","r","e","a","d"," ","b","o","o","k","s"," ",
                "e","v","e","r","y"," ","d","a","y",".">>

EnglishInputs == PieceTexts(MaxPieces) \cup {T_cat, T_sentence, T_mixed, T_nation2}

EnglishInit ==
    /\ en_pc = "call"
    /\ en_text \in EnglishInputs
    /\ en_lang \in LangSignals
    /\ en_out = FALSE

\* the call self.is_english_text(text)
IsEnglish ==
    /\ en_pc = "call"
    /\ en_out' = IsEnglishText(en_text, en_lang)
    /\ en_pc' = "return"
    /\ UNCHANGED <<en_text, en_lang, conf_vars, dd_vars, ocr_vars, folder_vars, pdf_vars,
                 sim_vars, sf_vars, we_vars, inc_vars>>

EnglishNext == IsEnglish

ConfIdle ==
    /\ conf_pc = "idle"
    /\ conf_text = <<>>
    /\ conf_out = RatZero

\* -------------------------------------- specification: confidence scores

ConfChars == {"a", "e_acute", "1", " ", "\n", "\t", ".", "-"}

\* long inputs: the length term saturated and the punctuation bonus earned
LongTexts ==
    { Rep(<<"a","b"," ","c","d"," ","e","f","g",".">>, 10),
      Rep(<<"a","b","c","d","e","f","g","h","i"," ">>, 12) \o <<".">>,
      <<"T","h","e"," ","c","a","t"," ","s","a","t"," ","o","n"," ",
        "t","h","e"," ","m","a","t",".">> }

ConfInputs == AllTexts(ConfChars, MaxTextLen) \cup LongTexts

ConfInit ==
    /\ conf_pc = "call"
    /\ conf_text \in ConfInputs
    /\ conf_out = RatZero

EstimateConf ==
    /\ conf_pc = "call"
    /\ conf_pc' = "return"
    /\ conf_out' = EstimateOcrConfidence(conf_text)
    /\ UNCHANGED <<conf_text, dd_vars, ocr_vars, folder_vars, pdf_vars, en_vars,
                 sim_vars, sf_vars, we_vars, inc_vars>>

ConfNext == EstimateConf

\* ------------------------------------- specification: _are_similar_words

SimIdle ==
    /\ sim_pc = "idle"
    /\ sim_a = <<>>
    /\ sim_b = <<>>
    /\ sim_out = FALSE
    /\ sim_rev = FALSE

W_interpret == <<"i","n","t","e","r","p","r","e","t">>

\* pairs of these words meet: equal words, a length difference of 0, 1, 2
\* and 3, and a share of matching positions of 0, 4/5, 5/6, 9/11 and 11/12
SimilarInputs ==
    DedupWords \cup {<<>>,
                     <<"n","a","t","a","n">>,
                     <<"a","t","i","o","n">>,
                     W_interpret,
                     W_interpret \o <<"e","d">>,
                     W_interpret \o <<"e","r">>,
                     W_interpret \o <<"e","r","s">>}

SimilarInit ==
    /\ sim_pc = "call"
    /\ sim_a \in SimilarInputs
    /\ sim_b \in SimilarInputs
    /\ sim_out = FALSE
    /\ sim_rev = FALSE

\* the calls self._are_similar_words(a, b) and self._are_similar_words(b, a)
AreSimilar ==
    /\ sim_pc = "call"
    /\ sim_out' = AreSimilarWords(sim_a, sim_b)
    /\ sim_rev' = AreSimilarWords(sim_b, sim_a)
    /\ sim_pc' = "return"
    /\ UNCHANGED <<sim_a, sim_b, conf_vars, dd_vars, ocr_vars, folder_vars, pdf_vars,
                   en_vars, sf_vars, we_vars, inc_vars>>

SimilarNext == AreSimilar

\* ---------------------------------- specification: _strict_english_filter

FilterIdle ==
    /\ sf_pc = "idle"
    /\ sf_text = <<>>
    /\ sf_lines = <<>>
    /\ english_only_lines = <<>>
    /\ sf_out = <<>>

\* the lines a response of the cleanup call is put together from: an
\* English sentence, a line with Japanese characters, numbering lines, a
\* line of upper-case letters (short, and of 10 characters or more), lines
\* with fewer than 3 ASCII letters, a line without whitespace (longer than 5
\* characters, and of 5), lower-case single letters, a line that is mostly
\* accented letters, a second sentence, a padded line, the empty line
ResponseLines ==
    { T_cat,
      <<"kanji","kanji"," ","a","b","c">>,
      <<"A"," ","B"," ","C">>,
      <<"U","S","A">>,
      <<"(","1",")"," ","A">>,
      <<"A","B","C"," ","D","E","F"," ","G","H","I">>,
      <<"a","b">>,
      <<"e_acute","e_acute"," ","a","b">>,
      <<"a","b","c","d","e","f","g">>,
      <<"a","b","c","d","e">>,
      <<"a"," ","b"," ","c">>,
      <<"a","b","c"," ","e_acute"," ","e_acute"," ","e_acute">>,
      <<"A"," ","n","a","t","o","n"," ","f","e","l","l",".">>,
      <<" ","i","t"," ","r","a","n"," ","o","f","f"," ">>,
      <<>> }

RECURSIVE ResponseTexts(_)
ResponseTexts(n) ==
    IF n = 0 THEN {<<>>}
    ELSE IF n = 1 THEN ResponseLines
    ELSE ResponseTexts(n - 1)
         \cup {t \o <<"\n">> \o line : t \in ResponseTexts(n - 1), line \in ResponseLines}

FilterInputs == ResponseTexts(MaxLines)

FilterInit ==
    /\ sf_pc = "call"
    /\ sf_text \in FilterInputs
    /\ sf_lines = <<>>
    /\ english_only_lines = <<>>
    /\ sf_out = <<>>

\* the guard "if not text: return ''" and lines = text.split('\n')
FilterStart ==
    /\ sf_pc = "call"
    /\ IF sf_text = <<>>
       THEN /\ sf_pc' = "return"
            /\ UNCHANGED sf_lines
       ELSE /\ sf_pc' = "loop"
            /\ sf_lines' = SplitLines(sf_text)
    /\ UNCHANGED <<sf_text, english_only_lines, sf_out, conf_vars, dd_vars, ocr_vars,
                   folder_vars, pdf_vars, en_vars, sim_vars, we_vars, inc_vars>>

\* one turn of "for line in lines"
FilterLine ==
    /\ sf_pc = "loop"
    /\ sf_lines # <<>>
    /\ LET line == Strip(Head(sf_lines))
       IN  english_only_lines' = IF KeepsLine(line)
                            THEN Append(english_only_lines, line)
                            ELSE english_only_lines
    /\ sf_lines' = Tail(sf_lines)
    /\ UNCHANGED <<sf_pc, sf_text, sf_out, conf_vars, dd_vars, ocr_vars,
                   folder_vars, pdf_vars, en_vars, sim_vars, we_vars, inc_vars>>

\* result = self._reconstruct_paragraphs(english_only_lines); return result.strip()
FilterReturn ==
    /\ sf_pc = "loop"
    /\ sf_lines = <<>>
    /\ sf_out' = Strip(ReconstructParagraphs(english_only_lines))
    /\ sf_pc' = "return"
    /\ UNCHANGED <<sf_text, sf_lines, english_only_lines, conf_vars, dd_vars, ocr_vars,
                   folder_vars, pdf_vars, en_vars, sim_vars, we_vars, inc_vars>>

FilterNext == FilterStart \/ FilterLine \/ FilterReturn

\* --------------------------------- specification: _extract_words_from_text

WordsIdle ==
    /\ we_pc = "idle"
    /\ we_text = <<>>
    /\ we_lang = "other"
    /\ we_tok = TRUE
    /\ we_lines = <<>>
    /\ we_words = <<>>

\* the passages process_pdf records: non-empty results of the strict filter
WordsInputs == {StrictEnglishFilter(t) : t \in FilterInputs} \ {<<>>}

WordsInit ==
    /\ we_pc = "call"
    /\ we_text \in WordsInputs
    /\ we_lang \in LangSignals
    /\ we_tok \in BOOLEAN
    /\ we_lines = <<>>
    /\ we_words = <<>>

\* words = [] and lines = text.split('\n')
WordsStart ==
    /\ we_pc = "call"
    /\ we_lines' = SplitLines(we_text)
    /\ we_pc' = "loop"
    /\ UNCHANGED <<we_text, we_lang, we_tok, we_words, conf_vars, dd_vars, ocr_vars,
                   folder_vars, pdf_vars, en_vars, sim_vars, sf_vars, inc_vars>>

\* one turn of "for line in lines"; an exception of word_tokenize leaves
\* the function
WordsLine ==
    /\ we_pc = "loop"
    /\ we_lines # <<>>
    /\ LET line == Strip(Head(we_lines))
           line_words == IF line # <<>> /\ IsEnglishText(line, we_lang)
                         THEN ExtractEnglishWords(line, we_lang, we_tok)
                         ELSE Returned(<<>>)
       IN  IF line_words.raised
           THEN /\ we_pc' = "raised"
                /\ UNCHANGED <<we_lines, we_words>>
           ELSE /\ we_words' = we_words \o line_words.value
                /\ we_lines' = Tail(we_lines)
                /\ UNCHANGED we_pc
    /\ UNCHANGED <<we_text, we_lang, we_tok, conf_vars, dd_vars, ocr_vars,
                   folder_vars, pdf_vars, en_vars, sim_vars, sf_vars, inc_vars>>

\* return words
WordsReturn ==
    /\ we_pc = "loop"
    /\ we_lines = <<>>
    /\ we_pc' = "return"
    /\ UNCHANGED <<we_text, we_lang, we_tok, we_lines, we_words, conf_vars, dd_vars,
                   ocr_vars, folder_vars, pdf_vars, en_vars, sim_vars, sf_vars,
                   inc_vars>>

WordsNext == WordsStart \/ WordsLine \/ WordsReturn

\* ------------------------------------ specification: IncrementalProcessor

IncIdle ==
    /\ inc_pc = "idle"
    /\ inc_kind = <<>>
    /\ inc_run = 1
    /\ processed_files = {}
    /\ unprocessed_files = <<>>
    /\ processed_count = 0
    /\ ocr_runs = <<>>

\* what process_pdf returns for a PDF: a record with extracted words, or a
\* record whose extracted_words is empty (no English found, or an error)
PdfKinds == {"words", "no words"}

\* the folder holds the PDFs 1..n (in the order of glob); the results file
\* records some of them already
IncInit ==
    /\ inc_pc = "call"
    /\ \E n \in 0..MaxFiles : /\ inc_kind \in [1..n -> PdfKinds]
                              /\ processed_files \in SUBSET (1..n)
                              /\ ocr_runs = [f \in 1..n |-> {}]
    /\ inc_run = 1
    /\ unprocessed_files = <<>>
    /\ processed_count = 0

\* detect_unprocessed_files: the PDFs whose name is not recorded
DetectUnprocessedFiles(pdfs, processed) ==
    SelectSeq([f \in 1..pdfs |-> f], LAMBDA f : f \notin processed)

\* process_all_unprocessed up to the loop: "if not unprocessed_files: return 0"
IncDetect ==
    /\ inc_pc = "call"
    /\ unprocessed_files' = DetectUnprocessedFiles(Len(inc_kind), processed_files)
    /\ processed_count' = 0
    /\ inc_pc' = IF unprocessed_files' = <<>> THEN "return" ELSE "loop"
    /\ UNCHANGED <<inc_kind, inc_run, processed_files, ocr_runs, conf_vars, dd_vars,
                   ocr_vars, folder_vars, pdf_vars, en_vars, sim_vars, sf_vars,
                   we_vars>>

\* process_single_file: the record of process_pdf if it has words, else None
ProcessSingleFile(kind) == IF kind = "words" THEN "data" ELSE "None"

\* one turn of "for pdf_file in unprocessed_files": process_single_file,
\* then append_to_extraction_results, which records the file unless writing
\* the results file fails; after the last turn the function returns
IncFile ==
    /\ inc_pc = "loop"
    /\ unprocessed_files # <<>>
    /\ LET pdf_file == Head(unprocessed_files)
           extracted_data == ProcessSingleFile(inc_kind[pdf_file])
       IN  /\ ocr_runs' = [ocr_runs EXCEPT ![pdf_file] = @ \cup {inc_run}]
           /\ IF extracted_data # "None"
              THEN \E appended \in BOOLEAN :
                       IF appended
                       THEN /\ processed_files' = processed_files \cup {pdf_file}
                            /\ processed_count' = processed_count + 1
                       ELSE UNCHANGED <<processed_files, processed_count>>
              ELSE UNCHANGED <<processed_files, processed_count>>
    /\ unprocessed_files' = Tail(unprocessed_files)
    /\ inc_pc' = IF unprocessed_files' = <<>> THEN "return" ELSE "loop"
    /\ UNCHANGED <<inc_kind, inc_run, conf_vars, dd_vars, ocr_vars, folder_vars,
                   pdf_vars, en_vars, sim_vars, sf_vars, we_vars>>

\* the script is run again over the same folder
IncAgain ==
    /\ inc_pc = "return"
    /\ inc_run < MaxRuns
    /\ inc_run' = inc_run + 1
    /\ inc_pc' = "call"
    /\ UNCHANGED <<inc_kind, processed_files, unprocessed_files, processed_count,
                   ocr_runs, conf_vars, dd_vars, ocr_vars, folder_vars, pdf_vars,
                   en_vars, sim_vars, sf_vars, we_vars>>

IncNext == IncDetect \/ IncFile \/ IncAgain

Init == FolderInit /\ PdfIdle /\ ConfIdle /\ DedupIdle /\ OcrIdle /\ EnglishIdle
    /\ SimIdle /\ FilterIdle /\ WordsIdle /\ IncIdle

Spec == Init /\ [][Next]_vars

InitConf == ConfInit /\ DedupIdle /\ OcrIdle /\ FolderIdle /\ PdfIdle /\ EnglishIdle
    /\ SimIdle /\ FilterIdle /\ WordsIdle /\ IncIdle

SpecConf == InitConf /\ [][ConfNext]_vars

InitDedup == DedupInit /\ ConfIdle /\ OcrIdle /\ FolderIdle /\ PdfIdle /\ EnglishIdle
    /\ SimIdle /\ FilterIdle /\ WordsIdle /\ IncIdle

SpecDedup == InitDedup /\ [][DedupNext]_vars

InitEnglish == EnglishInit /\ ConfIdle /\ DedupIdle /\ OcrIdle /\ FolderIdle /\ PdfIdle
    /\ SimIdle /\ FilterIdle /\ WordsIdle /\ IncIdle

SpecEnglish == InitEnglish /\ [][EnglishNext]_vars

InitOcr == OcrInit /\ ConfIdle /\ DedupIdle /\ FolderIdle /\ PdfIdle /\ EnglishIdle
    /\ SimIdle /\ FilterIdle /\ WordsIdle /\ IncIdle

SpecOcr == InitOcr /\ [][OcrNext]_vars

InitSimilar == SimilarInit /\ ConfIdle /\ DedupIdle /\ OcrIdle /\ FolderIdle /\ PdfIdle
    /\ EnglishIdle /\ FilterIdle /\ WordsIdle /\ IncIdle

SpecSimilar == InitSimilar /\ [][SimilarNext]_vars

InitFilter == FilterInit /\ ConfIdle /\ DedupIdle /\ OcrIdle /\ FolderIdle /\ PdfIdle
    /\ EnglishIdle /\ SimIdle /\ WordsIdle /\ IncIdle

SpecFilter == InitFilter /\ [][FilterNext]_vars

InitWords == WordsInit /\ ConfIdle /\ DedupIdle /\ OcrIdle /\ FolderIdle /\ PdfIdle
    /\ EnglishIdle /\ SimIdle /\ FilterIdle /\ IncIdle

SpecWords == InitWords /\ [][WordsNext]_vars

InitIncr == IncInit /\ ConfIdle /\ DedupIdle /\ OcrIdle /\ FolderIdle /\ PdfIdle
    /\ EnglishIdle /\ SimIdle /\ FilterIdle /\ WordsIdle

SpecIncr == InitIncr /\ [][IncNext]_vars

\* ================================================================ claims

\* ---- C1 (SpecOcr)
\* C1: extract_text_from_image returns the text of the candidate of highest
\* confidence among the candidates with non-blank text, the first generated
\* one among equals (candidates are generated variant by variant, and
\* configuration by configuration within a variant), and the empty string
\* when there is no candidate.
C1_BestCandidateReturned ==
    ocr_pc = "done" =>
      /\ \A a, b \in DOMAIN all_results :
           a < b =>
             \/ all_results[a].preprocessing < all_results[b].preprocessing
             \/ /\ all_results[a].preprocessing = all_results[b].preprocessing
                /\ all_results[a].config < all_results[b].config
      /\ \A a \in DOMAIN all_results : all_results[a].text # <<>>
      /\ IF all_results = <<>>
         THEN ocr_return = <<>>
         ELSE \E k \in DOMAIN all_results :
                /\ best_result = all_results[k]
                /\ ocr_return = all_results[k].text
                /\ \A m \in DOMAIN all_results :
                     RatLeq(all_results[m].confidence, all_results[k].confidence)
                /\ \A m \in 1..(k - 1) :
                     RatLess(all_results[m].confidence, all_results[k].confidence)

\* two candidates of equal confidence and different text: the first is kept
C1_Witness ==
    /\ ocr_pc = "done"
    /\ Len(all_results) = 2
    /\ all_results[1].confidence = all_results[2].confidence
    /\ all_results[1].text # all_results[2].text
    /\ best_result = all_results[1]
    /\ ocr_return = all_results[1].text

\* ---- C2 (SpecConf)
\* C2: _estimate_ocr_confidence returns a score c with 0 <= c <= 1 for every
\* text, and exactly 0 for text that is empty or whitespace only.
C2_ConfidenceInUnitInterval ==
    conf_pc = "return" =>
      /\ conf_out.den > 0
      /\ 0 <= conf_out.num
      /\ conf_out.num <= conf_out.den
      /\ Strip(conf_text) = <<>> => conf_out.num = 0

\* a long, mostly alphabetic text with some punctuation scores 0.95
C2_Witness ==
    /\ conf_pc = "return"
    /\ Len(conf_text) >= LengthCap
    /\ conf_out = Rat(95, 100)

\* ---- C3 (SpecDedup)
\* C3: the set returned by _deduplicate_words_with_frequency holds no two
\* distinct words that _are_similar_words calls similar.
C3_NoSimilarPairInResult ==
    dd_pc = "done" =>
      \A a, b \in cleaned_words : a # b => ~AreSimilarWords(a, b)

\* three pairwise-chained similar forms were given and one was merged away
C3_Witness ==
    /\ dd_pc = "done"
    /\ dd_pass = 1
    /\ {W_nation, W_notion, W_motion} \subseteq Range(dd_words)
    /\ Cardinality(cleaned_words) = 2

\* ---- C4 (SpecDedup)
NationTokens == <<W_nation, W_naton, W_naton, W_naton>>

\* C4 as claimed: deduplicating ["nation", "naton", "naton", "naton"] keeps
\* "naton" and drops "nation".
C4_NatonOnly ==
    (dd_pc = "done" /\ dd_pass = 1 /\ dd_words = NationTokens) =>
      (W_naton \in cleaned_words /\ W_nation \notin cleaned_words)

\* C4 as amended: deduplicating ["nation", "naton", "naton", "naton"] keeps
\* both "naton" and "nation": only 3 of 6 aligned positions agree, so the two
\* forms are not similar and nothing is merged.
C4_BothKept ==
    (dd_pc = "done" /\ dd_pass = 1 /\ dd_words = NationTokens) =>
      cleaned_words = {W_naton, W_nation}

C4_Witness ==
    /\ dd_pc = "done"
    /\ dd_pass = 1
    /\ dd_words = NationTokens
    /\ ~AreSimilarWords(W_nation, W_naton)

\* ---- C5 (SpecDedup)
\* C5: deduplicating the output of a deduplication, listed in any order,
\* returns the same set of words.
C5_Idempotent ==
    (dd_pc = "done" /\ dd_pass = 2) => cleaned_words = dd_first

\* a second application to three surviving words, the first application
\* having come from a list in which something was merged
C5_Witness ==
    /\ dd_pc = "done"
    /\ dd_pass = 2
    /\ Cardinality(dd_first) = 3
    /\ cleaned_words = dd_first

\* ---- C6 (SpecOcr)
ExpectedVariants(level) ==
    CASE level = "light" -> <<"standard">>
      [] level = "standard" -> <<"standard", "contrast", "denoise", "upscale">>
      [] level = "aggressive" -> <<"standard", "contrast", "denoise", "upscale",
                                   "morphological", "adaptive-threshold">>

\* C6: whenever preprocess_image returns, it returns 1 variant for level
\* light, 4 for standard and 6 for aggressive, in the fixed recipe order; it
\* does return when no recipe throws.
C6_VariantCounts ==
    /\ processed_images # <<>> =>
         /\ processed_images = ExpectedVariants(enhancement_level)
         /\ Len(processed_images) =
              (CASE enhancement_level = "light" -> 1
                 [] enhancement_level = "standard" -> 4
                 [] enhancement_level = "aggressive" -> 6)
    /\ (ocr_pc \in {"loop", "select", "done"} /\ failing = {}) =>
         processed_images # <<>>

C6_Witness ==
    /\ ocr_pc = "loop"
    /\ enhancement_level = "aggressive"
    /\ Len(processed_images) = 6

\* ---- C9 (SpecOcr)
\* C9 as claimed: if exactly one recipe throws while the variants are
\* generated, only that variant is dropped; the others are produced and each
\* is run through every OCR configuration.
C9_OnlyFailingVariantDropped ==
    (/\ ocr_pc = "done"
     /\ Cardinality(failing \cap Range(RecipesCalled(enhancement_level))) = 1) =>
      /\ processed_images =
           SelectSeq(RecipesCalled(enhancement_level), LAMBDA r : r \notin failing)
      /\ Len(attempts) = NumOcrConfigs * Len(processed_images)

\* ---- C10 (SpecOcr)
\* the n-th pair in variant-major order
PairAt(n) == <<((n - 1) \div NumOcrConfigs) + 1, ((n - 1) % NumOcrConfigs) + 1>>

\* C10: the (variant, configuration) pairs are attempted once each in
\* variant-major order, 4 per variant; an attempt that throws or returns
\* blank text adds no candidate and the next pair is attempted all the same;
\* no pair yields more than one candidate.
C10_EveryPairOnce ==
    /\ \A n \in DOMAIN attempts : attempts[n] = PairAt(n)
    /\ ocr_pc = "loop" => <<ocr_i, ocr_j>> = PairAt(Len(attempts) + 1)
    /\ ocr_pc \in {"select", "done"} =>
         Len(attempts) = NumOcrConfigs * Len(processed_images)
    /\ \A a \in DOMAIN all_results :
         <<all_results[a].preprocessing, all_results[a].config>> \in Range(attempts)
    /\ \A a, b \in DOMAIN all_results :
         a # b => <<all_results[a].preprocessing, all_results[a].config>>
                  # <<all_results[b].preprocessing, all_results[b].config>>

\* all 24 pairs of an aggressive run were attempted, the only candidates
\* coming from the last configuration of the second and of the last variant
C10_Witness ==
    /\ ocr_pc = "done"
    /\ Len(attempts) = 24
    /\ Len(all_results) = 2
    /\ all_results[1].preprocessing = 2
    /\ all_results[1].config = 4
    /\ all_results[2].preprocessing = 6
    /\ all_results[2].config = 4

\* C7 (as stated): process_pdf returns the record with every field, and the
\* error field is non-null exactly when a failure happened in conversion, a
\* page's OCR, cleanup or word extraction.
C7_ErrorSetOnAnyFailure ==
    p_pc = "returned" =>
        /\ DOMAIN result = DOMAIN NewResult(0, "standard")
        /\ result.error # NoError <=>
               failures \cap {"convert", "preprocess", "ocr engine",
                              "cleanup", "tokenizer"} # {}

\* C7 (amended): process_pdf never raises and returns the record with every
\* field; the error field is non-null exactly when an exception reached
\* process_pdf's own handler, that is when the conversion or the word
\* extraction failed. Failures inside a page's OCR or the cleanup call are
\* absorbed by the callee and leave the error field null.
C7_ErrorSetIffHandlerReached ==
    /\ p_pc \in {"idle", "convert", "page", "whole", "region", "finish", "returned"}
    /\ p_pc = "returned" =>
        /\ DOMAIN result = DOMAIN NewResult(0, "standard")
        /\ DOMAIN result.processing_stats = DOMAIN NewResult(0, "standard").processing_stats
        /\ result.error # NoError <=> failures \cap {"convert", "tokenizer"} # {}

\* C7: a document comes back with the error set after its word extraction
\* failed on the second page or region, the first one having met a failing
\* OCR engine call and a failing cleanup call without ending the processing.
C7_Witness ==
    /\ p_pc = "returned"
    /\ {"ocr engine", "cleanup", "tokenizer"} \subseteq failures
    /\ result.error # NoError
    /\ result.processing_stats.total_ocr_attempts = 2
    /\ result.processing_stats.successful_extractions = 1

\* C8 (as stated): over an existing folder with at least one PDF,
\* process_pdf_folder returns a list with one result per PDF file.
C8_OneResultPerPdf ==
    (f_pc \in {"returned", "raised"} /\ folder_exists /\ pdf_files >= 1) =>
        (f_pc = "returned" /\ Len(f_results) = pdf_files)

AsciiLetters(text) == Cardinality({i \in DOMAIN text : text[i] \in Lower \cup Upper})

Letters(text) ==
    Cardinality({i \in DOMAIN text :
        text[i] \in Lower \cup Upper \cup {"e_acute", "kana", "kanji"}})

\* a run of at least two ASCII letters with no letter, digit or underscore
\* on either side
HasAsciiToken(text) ==
    \E i \in DOMAIN text : \E j \in DOMAIN text :
        /\ i < j
        /\ \A k \in i..j : text[k] \in Lower \cup Upper
        /\ (i = 1 \/ ~IsWordChar(text[i - 1]))
        /\ (j = Len(text) \/ ~IsWordChar(text[j + 1]))

HardReject(text) ==
    \/ \A i \in DOMAIN text : text[i] \in {" ", "\n", "\t"}
    \/ \E i \in DOMAIN text : text[i] \in {"kana", "kanji"}
    \/ \A i \in DOMAIN text :
           text[i] \in Digits \cup {" ", "\n", "\t"}
                       \cup {"+", "-", "*", "/", "=", "(", ")", "[", "]"}
    \/ Letters(text) = 0
    \/ 10 * AsciiLetters(text) < 7 * Letters(text)
    \/ ~HasAsciiToken(text)

\* C17: is_english_text returns false for every text that hits a hard
\* reject (blank, a Japanese character, only digits and symbols, no letter,
\* ASCII-letter ratio under 0.7, no ASCII token of two letters or more),
\* whatever the language identification reports.
C17_HardRejectsReturnFalse ==
    (en_pc = "return" /\ HardReject(en_text)) => en_out = FALSE

\* C17: a text of three ideographs was rejected although the language
\* identification reported English.
C17_Witness ==
    /\ en_pc = "return"
    /\ en_text = <<"kanji", "kanji", "kanji">>
    /\ en_lang = "en"
    /\ en_out = FALSE

HasFunctionWord(text) ==
    \E g \in DOMAIN EnglishPatterns : SearchWords(EnglishPatterns[g], LowerText(text))

\* C18: for a text that passes the hard rejects, is_english_text returns
\* true exactly when the ASCII-letter ratio is at least 0.8, or a
\* function-word pattern matches, or the language identification reports
\* English; the two all-ASCII sentences of five words or more are accepted
\* under every language signal.
C18_AcceptIffOneSignal ==
    en_pc = "return" =>
        /\ ~HardReject(en_text) =>
              (en_out <=> \/ 10 * AsciiLetters(en_text) >= 8 * Letters(en_text)
                          \/ HasFunctionWord(en_text)
                          \/ en_lang = "en")
        /\ en_text \in {T_cat, T_sentence} => en_out

\* C18: the sentence without any of the function words was accepted while
\* the language identification threw.
C18_Witness ==
    /\ en_pc = "return"
    /\ en_text = T_sentence
    /\ en_lang = "raise"
    /\ ~HasFunctionWord(en_text)
    /\ en_out

CleanupFailureStep ==
    p_pc \in {"whole", "region"} =>
      /\ cleanup_calls' - cleanup_calls \in {0, 1}
      /\ cleanup_calls' <= result'.processing_stats.total_ocr_attempts
      /\ last_attempt'.cleanup \in {"raised", "empty"} =>
            /\ cleanup_calls' = cleanup_calls + 1
            /\ result'.pure_english_text = result.pure_english_text
            /\ all_extracted_words' = all_extracted_words
            /\ result'.error = NoError
            /\ p_pc' \in {"region", "page", "finish"}
            /\ p_pc' = "region" => text_regions' = Tail(text_regions)
            /\ p_pc' = "page" => page_i' = page_i + 1

\* C11: an OCR attempt whose cleanup call raised or returned an empty string
\* appends no passage and no word, leaves the error field null, goes on to
\* the next region or page (or to the end of the document), and has called
\* the cleanup service once; no attempt calls it more than once.
C11_CleanupFailureSkipsAttempt == [][CleanupFailureStep]_vars

\* C11: a document came back without error after two attempts, the first
\* giving a passage and the second meeting a cleanup call that raised.
C11_Witness ==
    /\ p_pc = "returned"
    /\ last_attempt.cleanup = "raised"
    /\ result.error = NoError
    /\ result.processing_stats.total_ocr_attempts = 2
    /\ cleanup_calls = 2
    /\ Len(result.pure_english_text) = 1

RegionChoiceStep ==
    /\ p_pc = "page" =>
          /\ p_pc' \in {"region", "whole"}
          /\ p_pc' = "region" <=> (f_level = "aggressive" /\ text_regions' # <<>>)
          /\ "region detection" \in failures' \ failures => p_pc' = "whole"
          /\ result' = result
    /\ p_pc = "whole" =>
          /\ result'.processing_stats.total_ocr_attempts =
                 result.processing_stats.total_ocr_attempts + 1
          /\ p_pc' \in {"page", "finish", "returned"}
          /\ p_pc' = "page" => page_i' = page_i + 1
    /\ (p_pc' = "returned" /\ failures' \subseteq {"region detection"}) =>
          result'.error = NoError

\* C13: after region detection a page is processed region by region exactly
\* when the level is aggressive and at least one region was found; otherwise
\* (other level, no region, detection throwing) one whole-page attempt is
\* made and the page is left, and a failing region detection alone never
\* sets the error field.
C13_RegionsIffAggressiveAndFound == [][RegionChoiceStep]_vars

\* C13: an aggressive two-page document on which region detection threw came
\* back without error after one whole-page attempt per page.
C13_Witness ==
    /\ p_pc = "returned"
    /\ f_level = "aggressive"
    /\ failures = {"region detection"}
    /\ result.error = NoError
    /\ result.pages_processed = 2
    /\ result.processing_stats.total_ocr_attempts = 2

BlankPageStep ==
    /\ (p_pc \in {"whole", "region"} /\ last_attempt'.ocr_text = <<>>) =>
          /\ result'.pages_processed = images
          /\ result'.processing_stats.total_ocr_attempts =
                 result.processing_stats.total_ocr_attempts + 1
          /\ result'.processing_stats.successful_extractions =
                 result.processing_stats.successful_extractions
          /\ result'.pure_english_text = result.pure_english_text
          /\ all_extracted_words' = all_extracted_words
          /\ cleanup_calls' = cleanup_calls
          /\ confidence_scores' = confidence_scores
    /\ p_pc = "finish" =>
          /\ result'.pages_processed = images
          /\ result'.processing_stats.average_confidence =
                 IF confidence_scores = <<>> THEN RatZero
                 ELSE RatMul(RatSum(confidence_scores),
                             Rat(1, Len(confidence_scores)))

\* C14: an attempt whose OCR text is empty is counted in total_ocr_attempts
\* (its page is in pages_processed), adds no passage and no word, calls the
\* cleanup service not at all and records no confidence; the average is
\* taken over the recorded confidences only.
C14_BlankPageCountedNotAveraged == [][BlankPageStep]_vars

\* C14: a two-page document whose last page gave empty OCR text came back
\* with both pages counted and the average equal to the first page's score.
C14_Witness ==
    /\ p_pc = "returned"
    /\ result.error = NoError
    /\ result.pages_processed = 2
    /\ result.processing_stats.total_ocr_attempts = 2
    /\ result.processing_stats.successful_extractions = 1
    /\ last_attempt.ocr_text = <<>>
    /\ confidence_scores # <<>>
    /\ result.processing_stats.average_confidence = confidence_scores[1]
    /\ result.processing_stats.average_confidence.num > 0

W_mat == <<"m","a","t">>

W_sat == <<"s","a","t">>

\* C15 (as stated): a one-page document whose kept OCR text is "The cat sat
\* on the mat.", returned unchanged by the cleanup call, yields the words
\* {"cat", "sat", "mat"} and an average_confidence equal to the confidence
\* the kept candidate was selected with.
C15_CatSentenceWordsAndConfidence ==
    ( /\ p_pc = "returned"
      /\ result.error = NoError
      /\ result.pages_processed = 1
      /\ result.processing_stats.total_ocr_attempts = 1
      /\ last_attempt = [ocr_text |-> T_cat, cleanup |-> "text"]
      /\ result.pure_english_text = <<T_cat>> ) =>
        /\ result.extracted_words = {W_cat, W_sat, W_mat}
        /\ result.processing_stats.average_confidence = selection_scores[1]

\* C16 (as stated): average_confidence is the arithmetic mean of the
\* confidences the kept candidates with non-empty text were selected with,
\* and 0 when there is none.
C16_AverageOfSelectionScores ==
    (p_pc = "returned" /\ result.error = NoError) =>
        result.processing_stats.average_confidence =
            IF selection_scores = <<>> THEN RatZero
            ELSE RatMul(RatSum(selection_scores), Rat(1, Len(selection_scores)))

\* C19 (as stated): the cleanup service is called for a page or region only
\* if is_english_text accepts the raw OCR text of that page or region.
C19_CleanupOnlyAfterEnglishFilter ==
    last_attempt.cleanup # "not called" =>
        \E lang \in LangSignals : IsEnglishText(last_attempt.ocr_text, lang)

\* C20 (as stated): a document whose processing aborted on a page after the
\* first comes back without partial state: no passage, no word, and the
\* counters not left at accumulated values.
C20_AbortLeavesNoPartialState ==
    (p_pc = "returned" /\ result.error # NoError /\ page_i >= 2) =>
        /\ result.pure_english_text = <<>>
        /\ result.extracted_words = {}
        /\ result.pages_processed = 0
        /\ result.processing_stats.total_ocr_attempts = 0
        /\ result.processing_stats.successful_extractions = 0

\* C21: the word set does not depend on the order in which the accepted words
\* are compared: every order the inner loop may take ends in the set that was
\* reached (the other fields of the record are functions of the images, the
\* level and the responses).
C21_WordSetIndependentOfOrder ==
    dd_pc = "done" => DeduplicateWordsWithFrequency(dd_words) = {cleaned_words}

\* C21: a run ended in which a dropped word was similar to two accepted
\* words, so that the inner loop could have met either first.
C21_Witness ==
    /\ dd_pc = "done"
    /\ dd_pass = 1
    /\ \E w \in Range(dd_words) \ cleaned_words :
           Cardinality({e \in cleaned_words : AreSimilarWords(w, e)}) >= 2

\* C25: every input word missing from the result has a similar word in the
\* result whose frequency is at least its own, and a word similar to no other
\* input word is in the result.
C25_BiasedTowardHigherFrequency ==
    dd_pc = "done" =>
        /\ \A w \in Range(dd_words) \ cleaned_words :
               \E e \in cleaned_words :
                   /\ AreSimilarWords(w, e)
                   /\ WordCount(dd_words, e) >= WordCount(dd_words, w)
        /\ \A w \in Range(dd_words) :
               (\A v \in Range(dd_words) \ {w} : ~AreSimilarWords(w, v))
                   => w \in cleaned_words

\* C25: a run ended in which a word was dropped for a similar word of
\* strictly higher frequency, next to a word that is similar to no other.
C25_Witness ==
    /\ dd_pc = "done"
    /\ dd_pass = 1
    /\ \E w \in Range(dd_words) \ cleaned_words : \E e \in cleaned_words :
           /\ AreSimilarWords(w, e)
           /\ WordCount(dd_words, e) > WordCount(dd_words, w)
    /\ \E w \in cleaned_words :
           \A v \in Range(dd_words) \ {w} : ~AreSimilarWords(w, v)

\* of two similar words of equal frequency the later one is in the set only
\* if the earlier one lost against a word visited before it
TieKeepsFirst(words, cleaned) ==
    \A a \in Range(words) : \A b \in Range(words) :
        ( /\ a # b
          /\ AreSimilarWords(a, b)
          /\ WordCount(words, a) = WordCount(words, b)
          /\ FirstIndex(words, a) < FirstIndex(words, b)
          /\ b \in cleaned ) =>
            /\ a \notin cleaned
            /\ \E c \in cleaned \ {b} :
                   /\ AreSimilarWords(a, c)
                   /\ \/ WordCount(words, c) > WordCount(words, a)
                      \/ /\ WordCount(words, c) = WordCount(words, a)
                         /\ FirstIndex(words, c) < FirstIndex(words, a)

AcceptedSetGrowsStep ==
    dd_pc = "loop" =>
        /\ cleaned_words \subseteq cleaned_words'
        /\ dd_pc' = "done" => TieKeepsFirst(dd_words', cleaned_words')

MatchingPositions(a, b) ==
    {i \in 1..Min(Len(a), Len(b)) : a[i] = b[i]}

\* the length difference is at most 2, and the words are equal or more than
\* 0.8 of max(len(a), len(b)) positions match
SimilarAsStated(a, b) ==
    /\ Len(a) - Len(b) <= 2
    /\ Len(b) - Len(a) <= 2
    /\ \/ a = b
       \/ 5 * Cardinality(MatchingPositions(a, b)) > 4 * Max(Len(a), Len(b))

C23_EachPdfOcrProcessedByAtMostOneRun ==
    \A f \in DOMAIN ocr_runs : Cardinality(ocr_runs[f]) <= 1

\* the text without its whitespace
NonSpace(text) == SelectSeq(text, LAMBDA c : ~IsWhitespace(c))

IsAsciiLetter(c) == c \in Lower \cup Upper

\* the four drop rules as the code has them, on the stripped line
KeptAsAmended(line) ==
    /\ \A i \in DOMAIN line : ~IsJapanese(line[i])
    /\ \/ Len(line) >= 10
       \/ \E i \in DOMAIN line :
              line[i] \notin Digits \cup Upper \cup {" ", "\t", "(", ")", "[", "]", "."}
    /\ Len(SelectSeq(line, IsAsciiLetter)) >= 3
    /\ \/ Len(line) <= 5
       \/ \E i \in DOMAIN line : IsWhitespace(line[i])

FilterAsAmendedStep ==
    /\ (sf_pc = "loop" /\ sf_lines # <<>>) =>
           english_only_lines' = IF KeptAsAmended(Strip(Head(sf_lines)))
                            THEN Append(english_only_lines, Strip(Head(sf_lines)))
                            ELSE english_only_lines
    /\ (sf_pc = "loop" /\ sf_pc' = "return") =>
           /\ sf_out' # <<>> <=> english_only_lines # <<>>
           /\ sf_out' = Strip(sf_out')
           /\ NonSpace(sf_out') = NonSpace(Join(english_only_lines, <<>>))

\* C28 (amended): a stripped line is kept iff it has no hiragana/katakana/CJK
\* character, is not a line under 10 characters made only of digits,
\* whitespace, brackets, full stops and upper-case ASCII letters, has at
\* least 3 ASCII letters, and is not longer than 5 characters without
\* whitespace; the result is non-empty iff a line was kept, is stripped, and
\* is made of the kept lines, in order, up to whitespace.
C28_KeptIffNoDropRule == [][FilterAsAmendedStep]_vars

\* C28: a response was filtered of which one line was kept and another dropped.
C28_Witness ==
    /\ sf_pc = "return"
    /\ Len(SplitLines(sf_text)) >= 2
    /\ \A i \in DOMAIN SplitLines(sf_text) : Strip(SplitLines(sf_text)[i]) # <<>>
    /\ Len(english_only_lines) = 1
    /\ sf_out # <<>>

\* a letter with no letter next to it
SingleLetter(line, i) ==
    /\ IsAlpha(line[i])
    /\ i = 1 \/ ~IsAlpha(line[i - 1])
    /\ i = Len(line) \/ ~IsAlpha(line[i + 1])

\* the four drop rules in the words of the claim
KeptAsStated(line) ==
    /\ \A i \in DOMAIN line : ~IsJapanese(line[i])
    /\ ~(/\ Len(line) < 10
         /\ \A i \in DOMAIN line :
                \/ line[i] \in Digits \cup {"(", ")", "[", "]"}
                \/ IsWhitespace(line[i])
                \/ SingleLetter(line, i))
    /\ Len(SelectSeq(line, IsAlpha)) >= 3
    /\ ~(Len(line) > 5 /\ \A i \in DOMAIN line : ~IsWhitespace(line[i]))

FilterAsStatedStep ==
    (sf_pc = "loop" /\ sf_lines # <<>>) =>
        english_only_lines' = IF KeptAsStated(Strip(Head(sf_lines)))
                         THEN Append(english_only_lines, Strip(Head(sf_lines)))
                         ELSE english_only_lines

\* C28 (as stated): a line is kept iff it has no hiragana/katakana/CJK
\* character, is not a line under 10 characters made only of digits, brackets
\* and single letters, has at least 3 alphabetic characters, and is not
\* longer than 5 characters without whitespace.
C28_KeptIffNoDropRuleAsStated == [][FilterAsStatedStep]_vars

\* the lowercased tokens of a text that match ^[a-z]+$, have length >= 2
\* and are not stop words
KeptTokens(text) ==
    SelectSeq(WordTokenize(LowerText(text)),
        LAMBDA token : /\ Len(token) >= 2
                       /\ {token[k] : k \in DOMAIN token} \subseteq Lower
                       /\ token \notin StopWords)

\* the kept tokens of the lines that is_english_text accepts
RECURSIVE TokensOfAcceptedLines(_, _)
TokensOfAcceptedLines(lines, lang) ==
    IF lines = <<>> THEN <<>>
    ELSE (IF IsEnglishText(Strip(Head(lines)), lang)
          THEN KeptTokens(Head(lines))
          ELSE <<>>) \o TokensOfAcceptedLines(Tail(lines), lang)

\* C27 (amended): the tokens a recorded passage adds to the stream are
\* exactly the kept tokens of those of its lines that is_english_text
\* accepts; a line it rejects adds none, and the call fails only if the
\* tokenizer does.
C27_StreamIsTokensOfAcceptedLines ==
    /\ we_pc = "return" =>
           we_words = TokensOfAcceptedLines(SplitLines(we_text), we_lang)
    /\ we_pc = "raised" => ~we_tok

\* C27: a passage was tokenized that has words, and a line with a kept token
\* that is_english_text rejects.
C27_Witness ==
    /\ we_pc = "return"
    /\ we_words # <<>>
    /\ \E i \in DOMAIN SplitLines(we_text) :
           /\ ~IsEnglishText(Strip(SplitLines(we_text)[i]), we_lang)
           /\ KeptTokens(SplitLines(we_text)[i]) # <<>>

\* C27 (as stated): the tokens a recorded passage adds to the stream are
\* exactly its lowercased tokens that match ^[a-z]+$, have length >= 2 and
\* are not stop words.
C27_StreamIsTokensOfPassagesAsStated ==
    we_pc = "return" => we_words = KeptTokens(we_text)

\* top-to-bottom, then left-to-right
InReadingOrder(regions) ==
    \A i \in DOMAIN regions : \A j \in DOMAIN regions :
        i < j => \/ regions[i].y < regions[j].y
                 \/ regions[i].y = regions[j].y /\ regions[i].x < regions[j].x

PageAndRegionOrderStep ==
    /\ p_pc = "page" => /\ InReadingOrder(text_regions')
                        /\ page_i' = page_i
                        /\ result' = result
    /\ (p_pc \in {"whole", "region"} /\ result'.error = NoError) =>
           \* one OCR attempt, for the page or for the first region left
           /\ result'.processing_stats.total_ocr_attempts =
                  result.processing_stats.total_ocr_attempts + 1
           \* then the next region of the page, or else the next page
           /\ IF p_pc = "region" /\ Len(text_regions) > 1
              THEN /\ p_pc' = "region"
                   /\ text_regions' = Tail(text_regions)
                   /\ page_i' = page_i
              ELSE IF page_i < images
              THEN p_pc' = "page" /\ page_i' = page_i + 1
              ELSE p_pc' = "finish"
           \* its passage, if any, goes to the end of the list
           /\ \/ result'.pure_english_text = result.pure_english_text
              \/ /\ Len(result'.pure_english_text) = Len(result.pure_english_text) + 1
                 /\ SubSeq(result'.pure_english_text, 1, Len(result.pure_english_text))
                        = result.pure_english_text

\* C22: pages are handled in page order and the regions of a page in their
\* sorted order (top, then left), one OCR attempt at a time, and each
\* passage is appended to pure_english_text when its page or region is
\* handled.
C22_PagesAndRegionsInOrder == [][PageAndRegionOrderStep]_vars

\* C22: a page was handled region by region, and both regions gave a passage.
C22_Witness ==
    /\ p_pc = "finish"
    /\ f_level = "aggressive"
    /\ images = 1
    /\ result.processing_stats.total_ocr_attempts = 2
    /\ Len(result.pure_english_text) = 2

\* the kept tokens of the recorded passages, in their order
RECURSIVE DocumentTokens(_)
DocumentTokens(passages) ==
    IF passages = <<>> THEN <<>>
    ELSE KeptTokens(Head(passages)) \o DocumentTokens(Tail(passages))

\* C26: extracted_words is empty until the last page is done, and is then
\* the result of _deduplicate_words_with_frequency on the tokens of all
\* recorded passages together, counted over the whole document.
C26_DedupOnceOverWholeDocument ==
    /\ p_pc \in {"convert", "page", "whole", "region", "finish"} =>
           result.extracted_words = {}
    /\ (p_pc = "returned" /\ result.error = NoError) =>
           DeduplicateWordsWithFrequency(DocumentTokens(result.pure_english_text))
               = {result.extracted_words}

\* C26: a document returned whose two passages share a word form, and the
\* more frequent form of the whole document was kept.
C26_Witness ==
    /\ p_pc = "returned"
    /\ result.error = NoError
    /\ Len(result.pure_english_text) = 2
    /\ W_nations \in result.extracted_words
    /\ W_nation \in Range(DocumentTokens(result.pure_english_text))
    /\ W_nation \notin result.extracted_words

\* the loop body of process_pdf has run to its end, or the loop is over
AfterPageOrRegion ==
    \/ p_pc \in {"page", "whole", "region", "finish"}
    \/ p_pc = "returned" /\ result.error = NoError

\* the pages whose loop body is done
PagesHandled ==
    IF p_pc \in {"page", "whole", "region"} THEN page_i - 1 ELSE images

\* C30: after every page or region handled, successful_extractions <=
\* total_ocr_attempts, there are as many confidence scores as successful
\* extractions and at most as many passages, every recorded confidence is
\* strictly positive, and for levels other than aggressive
\* total_ocr_attempts is the number of pages handled.
C30_CountersAfterEachAttempt ==
    AfterPageOrRegion =>
        /\ result.processing_stats.successful_extractions
               <= result.processing_stats.total_ocr_attempts
        /\ Len(confidence_scores) = result.processing_stats.successful_extractions
        /\ Len(result.pure_english_text)
               <= result.processing_stats.successful_extractions
        /\ \A i \in DOMAIN confidence_scores : RatLess(RatZero, confidence_scores[i])
        /\ f_level # "aggressive" =>
               result.processing_stats.total_ocr_attempts = PagesHandled

\* C30: two pages were handled at a level other than aggressive: one was
\* blank, the other was kept without a passage or with one.
C30_Witness ==
    /\ p_pc = "finish"
    /\ f_level # "aggressive"
    /\ result.processing_stats.total_ocr_attempts = 2
    /\ result.processing_stats.successful_extractions = 1
    /\ Len(confidence_scores) = 1

====
